---- MODULE Spec2Model ----
(***************************************************************************)
(* Workspace membership and invite lifecycle of Journal.Vet, as shipped in *)
(* the Supabase migrations (supabase/migrations/0002_create_audio_bucket   *)
(* .sql and 0004_invite_revocation.sql hold the definitions in force).     *)
(*                                                                         *)
(* The database is the committed state.  accept_invite, decline_invite and *)
(* revoke_invite are plpgsql functions; each call is one READ COMMITTED    *)
(* transaction whose SQL statements are the steps of a session.  Row locks *)
(* taken by SELECT ... FOR UPDATE and the uncommitted writes of a session  *)
(* are read off the session's position.  Direct table writes go through    *)
(* the row level security policies and are single-statement transactions.  *)
(***************************************************************************)
EXTENDS Integers, FiniteSets, Sequences, TLC

\* ------------------------------------------------------------------ bounds
MaxInvites == 1
MaxTime == 1
MaxDirect == 1
MaxJournals == 1
MaxOutbox == 2
MaxTemplates == 1
MaxVocabulary == 1
MaxRows == 1

\* ------------------------------------------------------------- the universe
NULL == "NULL"
Users == {"A", "B", "C"}
Procs == {1, 2}
InviteIds == 1..MaxInvites
Tokens == {"t1", "t2", "t3"}
TokenOrder(t) == CASE t = "t1" -> 1 [] t = "t2" -> 2 [] OTHER -> 3
InviteEmails == {"B@X"}
\* a timestamptz column: SQL NULL, or a point on the model's clock
NullTime == [isnull |-> TRUE, at |-> 0]
At(t) == [isnull |-> FALSE, at |-> t]
ExpiryChoices == {NullTime} \cup {At(t) : t \in 1..MaxTime}

\* auth.jwt() ->> 'email' of each account
JwtEmail(u) == CASE u = "A" -> "a@x" [] u = "B" -> "b@x" [] OTHER -> "c@x"

\* lower(text)
lower(s) == CASE s = "C@X" -> "c@x" [] s = "B@X" -> "b@x" [] s = "A@X" -> "a@x" [] OTHER -> s

\* coalesce(a, b)
coalesce(a, b) == IF a = NULL THEN b ELSE a

\* SQL three-valued booleans: "true", "false", "null"
SqlEq(a, b) == IF a = NULL \/ b = NULL THEN "null" ELSE IF a = b THEN "true" ELSE "false"
SqlBool(b) == IF b THEN "true" ELSE "false"
SqlOr(x, y) == IF x = "true" \/ y = "true" THEN "true"
               ELSE IF x = "null" \/ y = "null" THEN "null" ELSE "false"
SqlNot(x) == CASE x = "true" -> "false" [] x = "false" -> "true" [] OTHER -> "null"
\* plpgsql IF: the branch is taken only when the condition is true
SqlIf(x) == x = "true"

\* exception texts raised by the functions
InviteInvalid == "Invite is invalid or expired"
InviteNotFound == "Invite not found"
PermissionDenied == "You do not have permission to revoke this invite."
ProtectedOwnerMembership == "Cannot revoke the workspace owner."
Ok == "ok"

VARIABLES profiles, workspaces, members, invites, now, sess, directs

\* what the settings page shows: the invites the owner sent (loadInvites) and
\* the invites addressed to the signed-in account (get_pending_invites_for_user)
VARIABLES uiInvites, receivedInvites

\* the definition of the signup trigger function in force
VARIABLES bootstrap
\* the journals page of one browser tab: the rows it holds and the state of its
\* processing auto-refresh
VARIABLES page
\* the same page seen with its requests in flight: the list parameters, the
\* requests that have not been answered, the pending window timers with the
\* loadJournals closure each one holds, and what the page displays
VARIABLES view
\* what resolveWorkspaceContext returned last, with the arguments of the call
VARIABLES ctx
\* the avatar detail page (poll), the rows of avatar_images and the calls of
\* set_primary_avatar_image in progress
VARIABLES poll, images, atx

\* journals: the table definition in force, the rows, the objects of the
\* "audio" bucket, the webhook requests sent, and what the last handler told
\* its caller
VARIABLES schema, journals, audio, outbox, jres

\* templates, vocabulary entries and workspace names, and what the last
\* direct table call or settings/template handler returned to its caller
VARIABLES templates, vocabulary, wsname, ares

jvars == <<schema, journals, audio, outbox, jres>>
tvars == <<templates, vocabulary, wsname, ares>>
avars == <<poll, images, atx>>
pvars == <<page, view, ctx, avars>>
others == <<uiInvites, receivedInvites, bootstrap, pvars, jvars, tvars>>
vars == <<profiles, workspaces, members, invites, now, sess, directs, others>>
db == <<profiles, workspaces, members, invites>>

NoRec == [id |-> 0, workspace_id |-> NULL, email |-> NULL, status |-> NULL,
          token |-> NULL, accepted_by |-> NULL, expires_at |-> NullTime,
          is_core_member |-> "null", workspace_owner |-> NULL]

IdleSession == [op |-> "none", uid |-> NULL, arg |-> NULL, pc |-> "idle",
                tnow |-> 0, rec |-> NoRec, wrote |-> FALSE, waited |-> FALSE, res |-> NULL]

Member(w, u) == [workspace_id |-> w, user_id |-> u]

\* ------------------------------------------------------------ RLS helpers
is_workspace_member(uid, p_workspace) == Member(p_workspace, uid) \in members

is_core_member(uid, p_workspace) ==
    \E w \in workspaces : w.id = p_workspace /\ w.owner_id = uid

OwnerOf(wid) == (CHOOSE w \in workspaces : w.id = wid).owner_id

\* expires_at is null or expires_at > now()
NotExpired(i, t) == i.expires_at.isnull \/ i.expires_at.at > t

\* ------------------------------------------------- locks and pending writes
InFlight(p) == sess[p].pc \notin {"idle", "done"}
HoldsLocks(p) == sess[p].pc \in {"insert", "delete", "update"}

\* (variant: the SELECT without its FOR UPDATE clause takes no row lock)
InviteNeverLocked(p, id) == FALSE

\* invite row locked FOR UPDATE by a session other than p
InviteLockedByOther(p, id) ==
    \E q \in Procs \ {p} : HoldsLocks(q) /\ sess[q].rec.id = id

\* workspace row locked FOR UPDATE (revoke_invite joins workspaces)
WorkspaceLockedByOther(p, wid) ==
    \E q \in Procs \ {p} : /\ HoldsLocks(q)
                           /\ sess[q].op = "revoke_invite"
                           /\ sess[q].rec.workspace_id = wid

\* workspace row locked FOR KEY SHARE by an uncommitted membership insert
WorkspaceKeySharedByOther(p, wid) ==
    \E q \in Procs \ {p} : /\ HoldsLocks(q) /\ sess[q].op = "accept_invite"
                           /\ sess[q].wrote /\ sess[q].rec.workspace_id = wid

\* membership row inserted, not yet committed, by a session other than p
PendingInsertByOther(p, m) ==
    \E q \in Procs \ {p} : /\ HoldsLocks(q) /\ sess[q].op = "accept_invite" /\ sess[q].wrote
                           /\ Member(sess[q].rec.workspace_id, sess[q].uid) = m

\* membership row deleted, not yet committed, by a session other than p
PendingDeleteByOther(p, m) ==
    \E q \in Procs \ {p} : /\ HoldsLocks(q) /\ sess[q].op = "revoke_invite" /\ sess[q].wrote
                           /\ Member(sess[q].rec.workspace_id, sess[q].rec.accepted_by) = m

\* what a journal handler last told its caller: nothing yet
NoResult == [op |-> "none", actor |-> NULL, journal |-> 0, tone |-> "none",
             text |-> "none", logged |-> FALSE]

\* what a direct table call last returned: nothing yet
NoAnswer == [op |-> "none", actor |-> NULL, table |-> "none", workspace |-> NULL, id |-> 0,
             ok |-> FALSE, rows |-> {}]

\* insert into public.templates (id, name, body, kind): the seeded standard
\* template, which belongs to no workspace and has no creator
StdSeed == [id |-> 0, workspace_id |-> NULL, kind |-> "Std", created_by |-> NULL,
            body |-> "b0"]

\* insert into public.workspaces(id, name, owner_id): the name given at signup
DefaultName == "n0"

\* processingRefreshStateRef and the page's journals before the first load
NoPage == [user |-> NULL, workspace |-> NULL, journals |-> {}, timeoutId |-> FALSE,
           delay |-> 0, attempts |-> 0, processingKey |-> <<NULL, {}>>]

\* the page is not open
NoView == [user |-> NULL]

\* resolveWorkspaceContext has not been called
NoCtx == [status |-> NULL]

\* the avatar detail page is not open, there are no avatar images
NoPoll == [open |-> FALSE]

InitAvatars ==
    /\ poll = NoPoll
    /\ images = {}
    /\ atx = <<>>

InitTenant ==
    /\ page = NoPage
    /\ view = NoView
    /\ ctx = NoCtx
    /\ InitAvatars
    /\ templates = {StdSeed}
    /\ vocabulary = {}
    /\ wsname = [w \in Users |-> DefaultName]
    /\ ares = NoAnswer

\* the part of the initial state that the invite lifecycle does not touch:
\* nothing loaded in the settings page, the latest signup trigger and the
\* journals table of the consolidated schema in force, no journal
InitOthers ==
    /\ uiInvites = {}
    /\ receivedInvites = {}
    /\ bootstrap = "0010"
    /\ schema = "0002"
    /\ journals = {}
    /\ audio = {}
    /\ outbox = <<>>
    /\ jres = NoResult
    /\ InitTenant

Init ==
    /\ profiles = {}
    /\ workspaces = {}
    /\ members = {}
    /\ invites = {}
    /\ now = 0
    /\ sess = [p \in Procs |-> IdleSession]
    /\ directs = 0
    /\ InitOthers

\* ---------------------------------------------------------------- bootstrap
handle_new_user(u) ==
    /\ u \notin profiles
    /\ profiles' = profiles \cup {u}
    /\ workspaces' = workspaces \cup {[id |-> u, owner_id |-> u]}
    /\ members' = members \cup {Member(u, u)}
    /\ UNCHANGED <<invites, now, sess, directs, others>>

Tick ==
    /\ now < MaxTime
    /\ now' = now + 1
    /\ UNCHANGED <<db, sess, directs, others>>


\* ------------------------------------------------- direct table writes (RLS)
\* insert into invites, as the settings page does; policy invites_core_only
\* crypto.randomUUID(): a token no invite carries yet
NextToken == CHOOSE t \in Tokens : /\ \A x \in invites : x.token # t
                                   /\ \A u \in Tokens : (\A x \in invites : x.token # u) => TokenOrder(t) <= TokenOrder(u)

NextInviteId == CHOOSE i \in InviteIds : /\ \A x \in invites : x.id # i
                                         /\ \A j \in InviteIds : j < i => \E x \in invites : x.id = j

InviteInsert(actor, w, email, token, exp) ==
    /\ actor \in profiles
    /\ Cardinality(invites) < MaxInvites
    /\ is_core_member(actor, w)
    /\ \A x \in invites : x.token # token
    /\ invites' = invites \cup {[id |-> NextInviteId, workspace_id |-> w, email |-> email,
                                 status |-> "pending", token |-> token,
                                 accepted_by |-> NULL, expires_at |-> exp]}
    /\ UNCHANGED <<profiles, workspaces, members, now, sess, directs, others>>

\* policy "Core members can add members"
MemberInsertPolicy(actor, w, u) == is_core_member(actor, w)

MemberInsert(actor, w, u) ==
    /\ actor \in profiles /\ u \in profiles
    /\ directs < MaxDirect
    /\ \E x \in workspaces : x.id = w
    /\ MemberInsertPolicy(actor, w, u)
    /\ Member(w, u) \notin members
    /\ ~PendingInsertByOther(0, Member(w, u))
    /\ ~WorkspaceLockedByOther(0, w)
    /\ members' = members \cup {Member(w, u)}
    /\ directs' = directs + 1
    /\ UNCHANGED <<profiles, workspaces, invites, now, sess, others>>

\* policy "Core members can update members": using (old row), with check (new row)
MemberUpdatePolicy(actor, m, n) ==
    /\ is_core_member(actor, m.workspace_id)
    /\ is_core_member(actor, n.workspace_id)

MemberUpdate(actor, m, n) ==
    /\ actor \in profiles /\ n.user_id \in profiles
    /\ directs < MaxDirect
    /\ m \in members /\ n # m
    /\ \E x \in workspaces : x.id = n.workspace_id
    /\ MemberUpdatePolicy(actor, m, n)
    /\ n \notin members
    /\ ~PendingInsertByOther(0, n)
    /\ ~PendingDeleteByOther(0, m)
    /\ ~WorkspaceLockedByOther(0, n.workspace_id)
    /\ members' = (members \ {m}) \cup {n}
    /\ directs' = directs + 1
    /\ UNCHANGED <<profiles, workspaces, invites, now, sess, others>>

\* policy "Cannot delete owner membership"
MemberDeletePolicy(actor, m) ==
    /\ is_core_member(actor, m.workspace_id)
    /\ ~ \E w \in workspaces : w.id = m.workspace_id /\ w.owner_id = m.user_id

MemberDelete(actor, m) ==
    /\ actor \in profiles
    /\ directs < MaxDirect
    /\ m \in members
    /\ MemberDeletePolicy(actor, m)
    /\ ~PendingDeleteByOther(0, m)
    /\ members' = members \ {m}
    /\ directs' = directs + 1
    /\ UNCHANGED <<profiles, workspaces, invites, now, sess, others>>

\* ------------------------------------------------------------- rpc sessions
\* supabase.rpc(op, arg) by an authenticated account.  The call is one
\* transaction; now() is its start time.  Its first statement is the SELECT
\* ... FOR UPDATE: a row that matches but is locked by another transaction
\* makes the session wait, and the row is checked again once the lock is free.
\* (Connections are taken in order: the second is used only while the first is
\* busy.  The result of a call is read before anything else is scheduled.)
CanBegin(p, uid) ==
    /\ sess[p].pc = "idle"
    /\ \A q \in Procs : q < p => InFlight(q)
    /\ uid \in profiles

Started(op, uid, arg) == [IdleSession EXCEPT !.op = op, !.uid = uid, !.arg = arg]

\* the call returns: the transaction is over, the caller gets the result
Return(p, s, r, result) ==
    sess' = [sess EXCEPT ![p] = [s EXCEPT !.pc = "done", !.res = result, !.rec = r,
                                          !.tnow = 0, !.wrote = FALSE]]

Holding(p, s, r, pc) ==
    sess' = [sess EXCEPT ![p] = [s EXCEPT !.pc = pc, !.rec = r, !.tnow = 0]]

Waiting(p, s, r, t) ==
    sess' = [sess EXCEPT ![p] = [s EXCEPT !.pc = "wait", !.rec = r, !.tnow = t,
                                          !.waited = TRUE]]

Ack(p) ==
    /\ sess[p].pc = "done"
    /\ sess' = [sess EXCEPT ![p] = IdleSession]
    /\ UNCHANGED <<db, now, directs, others>>

AsRec(i) == [id |-> i.id, workspace_id |-> i.workspace_id, email |-> i.email,
             status |-> i.status, token |-> i.token, accepted_by |-> i.accepted_by,
             expires_at |-> i.expires_at, is_core_member |-> "null",
             workspace_owner |-> NULL]

\* (variant: the WHERE clause without the expires_at condition)
AcceptMatchesNoExpiry(i, token, t) ==
    /\ i.token = token
    /\ i.status = "pending"

\* (variant: the WHERE clause without the status condition)
AcceptMatchesAnyStatus(i, token, t) ==
    /\ i.token = token
    /\ i.expires_at.isnull \/ i.expires_at.at > t

\* ---- accept_invite(invite_token)
\* where token = invite_token and status = 'pending'
\*   and (expires_at is null or expires_at > now())
AcceptMatches(i, token, t) ==
    /\ i.token = token
    /\ i.status = "pending"
    /\ NotExpired(i, t)

\* select * into invite_record ... for update; if invite_record.id is null then raise
AcceptSelect(p, s, rows) ==
    IF rows = {}
    THEN Return(p, s, NoRec, InviteInvalid)
    ELSE \E i \in rows :
            IF InviteLockedByOther(p, i.id)
            THEN Waiting(p, s, AsRec(i), IF s.pc = "wait" THEN s.tnow ELSE now)
            ELSE Holding(p, s, AsRec(i), "insert")

accept_invite(p, uid, invite_token) ==
    /\ CanBegin(p, uid)
    /\ AcceptSelect(p, Started("accept_invite", uid, invite_token),
                    {i \in invites : AcceptMatches(i, invite_token, now)})
    /\ UNCHANGED <<db, now, directs, others>>

\* the lock is free: the latest version of the row is checked against the WHERE
AcceptRecheck(p) ==
    LET s == sess[p]
    IN  /\ s.pc = "wait" /\ s.op = "accept_invite"
        /\ ~InviteLockedByOther(p, s.rec.id)
        /\ AcceptSelect(p, s, {i \in invites : i.id = s.rec.id /\ AcceptMatches(i, s.arg, s.tnow)})
        /\ UNCHANGED <<db, now, directs, others>>

\* (variant: the plain insert of migration 0001_initial, whose unique violation
\* aborts the call when the row is already there)
UniqueViolation == "duplicate key value violates unique constraint"

AcceptInsertPlain(p) ==
    LET s == sess[p]
        m == Member(s.rec.workspace_id, s.uid)
    IN  /\ s.pc = "insert" /\ s.op = "accept_invite"
        /\ IF m \in members
           THEN Return(p, s, s.rec, UniqueViolation)
           ELSE sess' = [sess EXCEPT ![p].pc = "update", ![p].wrote = TRUE]
        /\ UNCHANGED <<db, now, directs, others>>

\* insert into workspace_members ... on conflict (workspace_id, user_id) do nothing
\* The statement waits while another transaction has inserted or deleted the
\* conflicting row and not yet committed; a committed conflicting row makes it
\* do nothing, and it takes no lock on that row.
AcceptInsertConflict(p, m) == m \in members

AcceptInsert(p) ==
    LET s == sess[p]
        m == Member(s.rec.workspace_id, s.uid)
    IN  /\ s.pc = "insert" /\ s.op = "accept_invite"
        /\ ~PendingInsertByOther(p, m)
        /\ ~PendingDeleteByOther(p, m)
        /\ IF AcceptInsertConflict(p, m)
           THEN sess' = [sess EXCEPT ![p].pc = "update"]
           ELSE /\ ~WorkspaceLockedByOther(p, s.rec.workspace_id)
                /\ sess' = [sess EXCEPT ![p].pc = "update", ![p].wrote = TRUE]
        /\ UNCHANGED <<db, now, directs, others>>

\* update invites set status = 'accepted', accepted_by = auth.uid(); commit
AcceptedRow(i, uid) == [i EXCEPT !.status = "accepted", !.accepted_by = uid]

AcceptUpdate(p) ==
    LET s == sess[p]
        m == Member(s.rec.workspace_id, s.uid)
    IN  /\ s.pc = "update" /\ s.op = "accept_invite"
        /\ invites' = {IF i.id = s.rec.id THEN AcceptedRow(i, s.uid) ELSE i : i \in invites}
        /\ members' = IF s.wrote THEN members \cup {m} ELSE members
        /\ Return(p, s, s.rec, Ok)
        /\ UNCHANGED <<profiles, workspaces, now, directs, others>>

\* (variant: the WHERE clause without the email condition)
DeclineMatchesNoEmail(i, id, uid, t) ==
    /\ i.id = id
    /\ i.status = "pending"
    /\ NotExpired(i, t)

\* ---- decline_invite(p_invite_id)
DeclineMatches(i, id, uid, t) ==
    /\ i.id = id
    /\ i.status = "pending"
    /\ lower(i.email) = lower(coalesce(JwtEmail(uid), ""))
    /\ NotExpired(i, t)

DeclineSelect(p, s, rows) ==
    IF rows = {}
    THEN Return(p, s, NoRec, InviteInvalid)
    ELSE \E i \in rows :
            IF InviteLockedByOther(p, i.id)
            THEN Waiting(p, s, AsRec(i), IF s.pc = "wait" THEN s.tnow ELSE now)
            ELSE Holding(p, s, AsRec(i), "update")

decline_invite(p, uid, p_invite_id) ==
    /\ CanBegin(p, uid)
    /\ DeclineSelect(p, Started("decline_invite", uid, p_invite_id),
                     {i \in invites : DeclineMatches(i, p_invite_id, uid, now)})
    /\ UNCHANGED <<db, now, directs, others>>

DeclineRecheck(p) ==
    LET s == sess[p]
    IN  /\ s.pc = "wait" /\ s.op = "decline_invite"
        /\ ~InviteLockedByOther(p, s.rec.id)
        /\ DeclineSelect(p, s, {i \in invites : DeclineMatches(i, s.arg, s.uid, s.tnow)})
        /\ UNCHANGED <<db, now, directs, others>>

DeclinedRow(i) == [i EXCEPT !.status = "declined"]

DeclineUpdate(p) ==
    LET s == sess[p]
    IN  /\ s.pc = "update" /\ s.op = "decline_invite"
        /\ invites' = {IF i.id = s.rec.id THEN DeclinedRow(i) ELSE i : i \in invites}
        /\ Return(p, s, s.rec, Ok)
        /\ UNCHANGED <<profiles, workspaces, members, now, directs, others>>

\* ---- revoke_invite(p_invite_id)
\* select i.*, is_core_member(i.workspace_id), w.owner_id as workspace_owner
RevokeRec(i, uid) == [AsRec(i) EXCEPT !.is_core_member = SqlBool(is_core_member(uid, i.workspace_id)),
                                      !.workspace_owner = OwnerOf(i.workspace_id)]

is_invitee(r, uid) == SqlEq(r.accepted_by, uid)

can_manage(r, uid) == SqlOr(is_invitee(r, uid), r.is_core_member)

\* (variant: without the defensive check on the workspace owner)
RevokeChecksNoOwnerGuard(p, s, r) ==
    IF SqlIf(SqlNot(can_manage(r, s.uid)))
    THEN Return(p, s, r, PermissionDenied)
    ELSE IF r.status = "revoked"
    THEN Return(p, s, r, Ok)
    ELSE IF r.accepted_by # NULL
    THEN Holding(p, s, r, "delete")
    ELSE Holding(p, s, r, "update")

\* (variant: without the early return on an invite that is already revoked)
RevokeChecksNoEarlyReturn(p, s, r) ==
    IF SqlIf(SqlNot(can_manage(r, s.uid)))
    THEN Return(p, s, r, PermissionDenied)
    ELSE IF r.accepted_by # NULL
    THEN IF r.accepted_by = r.workspace_owner
         THEN Return(p, s, r, ProtectedOwnerMembership)
         ELSE Holding(p, s, r, "delete")
    ELSE Holding(p, s, r, "update")

\* the plpgsql body between the select and the first write
RevokeChecks(p, s, r) ==
    IF SqlIf(SqlNot(can_manage(r, s.uid)))
    THEN Return(p, s, r, PermissionDenied)
    ELSE IF r.status = "revoked"
    THEN Return(p, s, r, Ok)
    ELSE IF r.accepted_by # NULL
    THEN IF r.accepted_by = r.workspace_owner
         THEN Return(p, s, r, ProtectedOwnerMembership)
         ELSE Holding(p, s, r, "delete")
    ELSE Holding(p, s, r, "update")

\* ... from invites i join workspaces w on w.id = i.workspace_id
\*     where i.id = p_invite_id for update
RevokeSelect(p, s, rows) ==
    IF rows = {}
    THEN Return(p, s, NoRec, InviteNotFound)
    ELSE \E i \in rows :
            IF \/ InviteLockedByOther(p, i.id)
               \/ WorkspaceLockedByOther(p, i.workspace_id)
               \/ WorkspaceKeySharedByOther(p, i.workspace_id)
            THEN Waiting(p, s, AsRec(i), 0)
            ELSE RevokeChecks(p, s, RevokeRec(i, s.uid))

revoke_invite(p, uid, p_invite_id) ==
    /\ CanBegin(p, uid)
    /\ RevokeSelect(p, Started("revoke_invite", uid, p_invite_id),
                    {i \in invites : i.id = p_invite_id})
    /\ UNCHANGED <<db, now, directs, others>>

\* (variant: after the wait the function goes on with the row as it was read
\* before the wait, instead of the row's latest committed version)
RevokeRecheckStale(p) ==
    LET s == sess[p]
        rows == {i \in invites : i.id = s.arg}
    IN  /\ s.pc = "wait" /\ s.op = "revoke_invite"
        /\ \A i \in rows : /\ ~InviteLockedByOther(p, i.id)
                           /\ ~WorkspaceLockedByOther(p, i.workspace_id)
                           /\ ~WorkspaceKeySharedByOther(p, i.workspace_id)
        /\ RevokeChecks(p, s, RevokeRec(s.rec, s.uid))
        /\ UNCHANGED <<db, now, directs, others>>

RevokeRecheck(p) ==
    LET s == sess[p]
        rows == {i \in invites : i.id = s.arg}
    IN  /\ s.pc = "wait" /\ s.op = "revoke_invite"
        /\ \A i \in rows : /\ ~InviteLockedByOther(p, i.id)
                           /\ ~WorkspaceLockedByOther(p, i.workspace_id)
                           /\ ~WorkspaceKeySharedByOther(p, i.workspace_id)
        /\ RevokeSelect(p, s, rows)
        /\ UNCHANGED <<db, now, directs, others>>

\* delete from workspace_members where workspace_id = ... and user_id = accepted_by
RevokeDelete(p) ==
    LET s == sess[p]
        m == Member(s.rec.workspace_id, s.rec.accepted_by)
    IN  /\ s.pc = "delete" /\ s.op = "revoke_invite"
        /\ ~PendingDeleteByOther(p, m)
        /\ sess' = [sess EXCEPT ![p].pc = "update", ![p].wrote = (m \in members)]
        /\ UNCHANGED <<db, now, directs, others>>

\* update invites set status = 'revoked'; commit
RevokedRow(i) == [i EXCEPT !.status = "revoked"]

RevokeUpdate(p) ==
    LET s == sess[p]
        m == Member(s.rec.workspace_id, s.rec.accepted_by)
    IN  /\ s.pc = "update" /\ s.op = "revoke_invite"
        /\ invites' = {IF i.id = s.rec.id THEN RevokedRow(i) ELSE i : i \in invites}
        /\ members' = IF s.wrote THEN members \ {m} ELSE members
        /\ Return(p, s, s.rec, Ok)
        /\ UNCHANGED <<profiles, workspaces, now, directs, others>>

\* ------------------------------------------------------------ specification
ResultPending == \E p \in Procs : sess[p].pc = "done"

Next ==
    \/ ~ResultPending /\ \E u \in Users : handle_new_user(u)
    \/ ~ResultPending /\ Tick
    \/ ~ResultPending /\ \E a \in Users, w \in Users, e \in InviteEmails, x \in ExpiryChoices :
          InviteInsert(a, w, e, NextToken, x)
    \/ ~ResultPending /\ \E a \in Users, w \in Users, u \in Users : MemberInsert(a, w, u)
    \/ ~ResultPending /\ \E a \in Users, m \in members, w \in Users, u \in Users :
          MemberUpdate(a, m, Member(w, u))
    \/ ~ResultPending /\ \E a \in Users, m \in members : MemberDelete(a, m)
    \/ ~ResultPending /\ \E p \in Procs, u \in Users, t \in Tokens : accept_invite(p, u, t)
    \/ ~ResultPending /\ \E p \in Procs, u \in Users, i \in InviteIds : decline_invite(p, u, i)
    \/ ~ResultPending /\ \E p \in Procs, u \in Users, i \in InviteIds : revoke_invite(p, u, i)
    \/ ~ResultPending /\ \E p \in Procs : AcceptRecheck(p)
    \/ ~ResultPending /\ \E p \in Procs : AcceptInsert(p)
    \/ ~ResultPending /\ \E p \in Procs : AcceptUpdate(p)
    \/ ~ResultPending /\ \E p \in Procs : DeclineRecheck(p)
    \/ ~ResultPending /\ \E p \in Procs : DeclineUpdate(p)
    \/ ~ResultPending /\ \E p \in Procs : RevokeRecheck(p)
    \/ ~ResultPending /\ \E p \in Procs : RevokeDelete(p)
    \/ ~ResultPending /\ \E p \in Procs : RevokeUpdate(p)
    \/ \E p \in Procs : Ack(p)

Spec == Init /\ [][Next]_vars

\* The invite lifecycle, one operation at a time: a single connection issues
\* the calls, and the only direct table write is the owner's invite insert.
NextSeq ==
    \/ sess[1].pc = "idle" /\ \E u \in Users : handle_new_user(u)
    \/ sess[1].pc = "idle" /\ Tick
    \/ sess[1].pc = "idle" /\ \E a \in Users, w \in Users, e \in InviteEmails, x \in ExpiryChoices :
          InviteInsert(a, w, e, NextToken, x)
    \/ \E u \in Users, t \in Tokens : accept_invite(1, u, t)
    \/ \E u \in Users, i \in InviteIds : decline_invite(1, u, i)
    \/ \E u \in Users, i \in InviteIds : revoke_invite(1, u, i)
    \/ AcceptInsert(1)
    \/ AcceptUpdate(1)
    \/ DeclineUpdate(1)
    \/ RevokeDelete(1)
    \/ RevokeUpdate(1)
    \/ Ack(1)

SpecSeq == Init /\ [][NextSeq]_vars

\* ------------------------------------------------------- reading invites
\* policy invites_core_only: the rows of invites an account can read directly
InvitesVisible(actor) == {i \in invites : is_core_member(actor, i.workspace_id)}

\* rows come ordered by created_at descending (ids grow with created_at); the
\* first row of every email is kept
deduplicateInvites(items) ==
    {i \in items : \A j \in items : lower(j.email) = lower(i.email) => j.id <= i.id}

\* settings page, owner's list: select id, email, status, created_at
loadInvites(actor, workspaceId) ==
    /\ actor \in profiles
    /\ \E w \in workspaces : w.id = workspaceId
    /\ uiInvites' = {[id |-> i.id, email |-> i.email, status |-> i.status] :
                        i \in deduplicateInvites({j \in InvitesVisible(actor) :
                                                      j.workspace_id = workspaceId})}
    /\ UNCHANGED <<db, now, sess, directs, receivedInvites, bootstrap, pvars, jvars, tvars>>

\* variant: the list without the comparison of emails
get_pending_invites_any_email(uid) ==
    {[id |-> i.id, workspace_id |-> i.workspace_id, status |-> i.status,
      token |-> IF i.status = "pending" THEN i.token ELSE NULL] :
        i \in {j \in invites :
                 /\ \E w \in workspaces : w.id = j.workspace_id
                 /\ \/ /\ j.status = "pending"
                       /\ NotExpired(j, now)
                    \/ /\ j.status = "accepted"
                       /\ j.accepted_by = uid}}

\* function public.get_pending_invites_for_user
get_pending_invites_for_user(uid) ==
    {[id |-> i.id, workspace_id |-> i.workspace_id, status |-> i.status,
      token |-> IF i.status = "pending" THEN i.token ELSE NULL] :
        i \in {j \in invites :
                 /\ \E w \in workspaces : w.id = j.workspace_id
                 /\ \/ /\ j.status = "pending"
                       /\ NotExpired(j, now)
                       /\ lower(j.email) = lower(coalesce(JwtEmail(uid), ""))
                    \/ /\ j.status = "accepted"
                       /\ j.accepted_by = uid}}

\* settings page, invitee's list
loadReceivedInvites(uid) ==
    /\ uid \in profiles
    /\ receivedInvites' = get_pending_invites_for_user(uid)
    /\ UNCHANGED <<db, now, sess, directs, uiInvites, bootstrap, pvars, jvars, tvars>>

\* The invite lifecycle one call at a time, together with the two lists of the
\* settings page.
NextRead ==
    \/ sess[1].pc = "idle" /\ \E u \in Users : handle_new_user(u)
    \/ sess[1].pc = "idle" /\ Tick
    \/ sess[1].pc = "idle" /\ \E a \in Users, w \in Users, e \in InviteEmails, x \in ExpiryChoices :
          InviteInsert(a, w, e, NextToken, x)
    \/ sess[1].pc = "idle" /\ \E a \in Users, w \in Users : loadInvites(a, w)
    \/ sess[1].pc = "idle" /\ \E u \in Users : loadReceivedInvites(u)
    \/ \E u \in Users, t \in Tokens : accept_invite(1, u, t)
    \/ \E u \in Users, i \in InviteIds : decline_invite(1, u, i)
    \/ \E u \in Users, i \in InviteIds : revoke_invite(1, u, i)
    \/ AcceptInsert(1)
    \/ AcceptUpdate(1)
    \/ DeclineUpdate(1)
    \/ RevokeDelete(1)
    \/ RevokeUpdate(1)
    \/ Ack(1)

SpecRead == Init /\ [][NextRead]_vars

\* ------------------------------------------------------------------ signup
\* The shipped definitions of handle_new_user: 0002_create_audio_bucket and
\* 0010_journal_author_email insert the profile, the workspace and the
\* membership; 0005_set_primary_avatar_image inserts the profile only.
BootstrapDefs == {"0002", "0005", "0010"}

\* 0005: insert into profiles (id) values (new.id) on conflict (id) do nothing
handle_new_user_0005(u) ==
    /\ u \notin profiles
    /\ profiles' = profiles \cup {u}
    /\ UNCHANGED <<workspaces, members, invites, now, sess, directs, others>>

\* insert into auth.users: the trigger runs the definition in force, in the
\* transaction of the insert
SignUp(u) ==
    IF bootstrap = "0005" THEN handle_new_user_0005(u) ELSE handle_new_user(u)

InitBoot ==
    /\ profiles = {}
    /\ workspaces = {}
    /\ members = {}
    /\ invites = {}
    /\ now = 0
    /\ sess = [p \in Procs |-> IdleSession]
    /\ directs = 0
    /\ uiInvites = {}
    /\ receivedInvites = {}
    /\ bootstrap \in BootstrapDefs
    /\ schema = "0002"
    /\ journals = {}
    /\ audio = {}
    /\ outbox = <<>>
    /\ jres = NoResult
    /\ InitTenant

\* Signups under any of the shipped trigger definitions, followed by the invite
\* lifecycle one call at a time.
NextBoot ==
    \/ sess[1].pc = "idle" /\ \E u \in Users : SignUp(u)
    \/ sess[1].pc = "idle" /\ Tick
    \/ sess[1].pc = "idle" /\ \E a \in Users, w \in Users, e \in InviteEmails, x \in ExpiryChoices :
          InviteInsert(a, w, e, NextToken, x)
    \/ \E u \in Users, t \in Tokens : accept_invite(1, u, t)
    \/ \E u \in Users, i \in InviteIds : decline_invite(1, u, i)
    \/ \E u \in Users, i \in InviteIds : revoke_invite(1, u, i)
    \/ AcceptInsert(1)
    \/ AcceptUpdate(1)
    \/ DeclineUpdate(1)
    \/ RevokeDelete(1)
    \/ RevokeUpdate(1)
    \/ Ack(1)

SpecBoot == InitBoot /\ [][NextBoot]_vars

\* Concurrent calls of the three invite functions on two connections; the only
\* direct table write is the owner's invite insert.
NextConc ==
    \/ ~ResultPending /\ \E u \in Users : handle_new_user(u)
    \/ ~ResultPending /\ Tick
    \/ ~ResultPending /\ \E a \in Users, w \in Users, e \in InviteEmails, x \in ExpiryChoices :
          InviteInsert(a, w, e, NextToken, x)
    \/ ~ResultPending /\ \E p \in Procs, u \in Users, t \in Tokens : accept_invite(p, u, t)
    \/ ~ResultPending /\ \E p \in Procs, u \in Users, i \in InviteIds : decline_invite(p, u, i)
    \/ ~ResultPending /\ \E p \in Procs, u \in Users, i \in InviteIds : revoke_invite(p, u, i)
    \/ ~ResultPending /\ \E p \in Procs : AcceptRecheck(p)
    \/ ~ResultPending /\ \E p \in Procs : AcceptInsert(p)
    \/ ~ResultPending /\ \E p \in Procs : AcceptUpdate(p)
    \/ ~ResultPending /\ \E p \in Procs : DeclineRecheck(p)
    \/ ~ResultPending /\ \E p \in Procs : DeclineUpdate(p)
    \/ ~ResultPending /\ \E p \in Procs : RevokeRecheck(p)
    \/ ~ResultPending /\ \E p \in Procs : RevokeDelete(p)
    \/ ~ResultPending /\ \E p \in Procs : RevokeUpdate(p)
    \/ \E p \in Procs : Ack(p)

SpecConc == Init /\ [][NextConc]_vars

\* ------------------------------------------------------------------ journals
\* the two definitions of public.journals a deployment can have in force:
\* 0001_initial creates the table with a CHECK on status; the consolidated
\* 0002 script says "create table if not exists" without one, so it defines
\* the table only where 0001_initial has not run
SchemaDefs == {"0001", "0002"}

\* check (status in ('draft', 'processed', 'error')) of 0001_initial
StatusCheck(st) == schema = "0001" => st \in {"draft", "processed", "error"}

\* status text not null default 'draft'
DefaultStatus == "draft"

JournalIds == 1..MaxJournals
FileIds == 1..MaxJournals

\* the template and language chosen in the form
Settings == {[template_id |-> NULL, language_code |-> "en"],
             [template_id |-> "T1", language_code |-> "da"]}

\* what the processing pipeline sends back
Payloads == {[transcript |-> "t1", summary |-> "s1"],
             [transcript |-> "t2", summary |-> "s2"]}

\* how a webhook request ends: response.ok, fetch rejecting, or a non-2xx status
Responses == {"ok", "network_error", "non_2xx"}

\* const storageKey = `${currentWorkspaceId}/${fileId}.${extension}`
storageKey(w, f) == <<w, ToString(f)>>

\* const storagePath = `audio/${storageKey}`
storagePath(key) == <<"audio">> \o key

\* key := regexp_replace(key, '^audio/', '')
NormalizeKey(path) == IF Len(path) > 0 /\ Head(path) = "audio" THEN Tail(path) ELSE path

\* a webhook request as sent by fetch, and how it ended
Request(hook, id, s, path, response) ==
    [hook |-> hook, journal_id |-> id, template_id |-> s.template_id,
     language_code |-> s.language_code, audio_bucket_path |-> path,
     response |-> response]

NoSettings == [template_id |-> NULL, language_code |-> NULL]

\* setMessage / setResummarizeStatus, and whether console.error was called
Told(op, actor, id, tone, text, logged) ==
    [op |-> op, actor |-> actor, journal |-> id, tone |-> tone, text |-> text,
     logged |-> logged]

\* gen_random_uuid() / crypto.randomUUID(): an id no row and no request carries
FreshJournalIds ==
    {n \in JournalIds : /\ \A j \in journals : j.id # n
                        /\ \A k \in 1..Len(outbox) : outbox[k].journal_id # n}

NextJournalId == CHOOSE n \in FreshJournalIds : \A m \in FreshJournalIds : n <= m

FreshFileIds ==
    {f \in FileIds : /\ \A k \in audio : k[2] # ToString(f)
                     /\ \A j \in journals : NormalizeKey(j.audio_path)[2] # ToString(f)}

NextFileId == CHOOSE f \in FreshFileIds : \A g \in FreshFileIds : f <= g

\* policy audio_members_manage on storage.objects
audio_members_manage(uid, key) == is_workspace_member(uid, key[1])

\* policy journals_select
journals_select(uid, j) == is_workspace_member(uid, j.workspace_id)

\* policy journals_insert
journals_insert(uid, j) ==
    is_workspace_member(uid, j.workspace_id) /\ j.created_by = uid

\* (variant: any member of the workspace may update)
journals_update_any_member(uid, j) == is_workspace_member(uid, j.workspace_id)

\* policy journals_update
journals_update(uid, j) ==
    /\ is_workspace_member(uid, j.workspace_id)
    /\ (is_core_member(uid, j.workspace_id) \/ j.created_by = uid)

\* policy journals_delete
journals_delete(uid, j) == is_core_member(uid, j.workspace_id)

\* id uuid primary key
Stored(id) == \E j \in journals : j.id = id

Journal(id) == CHOOSE j \in journals : j.id = id

\* trigger journals_set_updated_at: new.updated_at = now()
set_updated_at(j) == [j EXCEPT !.updated_at = now]

JournalRow(id, w, uid, st, s, path) ==
    [id |-> id, workspace_id |-> w, created_by |-> uid, status |-> st,
     language_code |-> s.language_code, template_id |-> s.template_id,
     audio_path |-> path, transcript |-> NULL, summary |-> NULL,
     updated_at |-> now]

\* insert into journals through the API without a status: the column default
JournalInsert(actor, w) ==
    LET row == JournalRow(NextJournalId, w, actor, DefaultStatus, NoSettings,
                          storagePath(storageKey(w, NextFileId)))
    IN  /\ actor \in profiles
        /\ FreshJournalIds # {} /\ FreshFileIds # {}
        /\ journals_insert(actor, row)
        /\ StatusCheck(row.status)
        /\ journals' = journals \cup {row}
        /\ UNCHANGED <<db, now, sess, directs, uiInvites, receivedInvites,
                       bootstrap, pvars, tvars, schema, audio, outbox, jres>>

\* (variant: the catch block removes the uploaded object whatever was created)
CleanupAlways(journalCreated, objects, key) == objects \ {key}

\* (variant: the catch block removes nothing)
CleanupNever(journalCreated, objects, key) == objects

\* catch: if (!journalCreated) await supabase.storage.from("audio").remove([storageKey])
CleanupOnFailure(journalCreated, objects, key) ==
    IF ~journalCreated THEN objects \ {key} ELSE objects

\* ---- handleSaveRecording (createJournal)
\* upload to the "audio" bucket, insert the row with status 'processing',
\* POST {journal_id} to the transcription webhook, save the profile defaults
handleSaveRecording(actor, w, s, uploaded, response, profileSaved) ==
    LET id == NextJournalId
        key == storageKey(w, NextFileId)
        row == JournalRow(id, w, actor, "processing", s, storagePath(key))
        uploadOk == uploaded /\ audio_members_manage(actor, key)
        insertOk == journals_insert(actor, row) /\ StatusCheck(row.status)
    IN  /\ actor \in profiles
        /\ \E x \in workspaces : x.id = w
        /\ FreshJournalIds # {} /\ FreshFileIds # {}
        /\ Len(outbox) < MaxOutbox
        /\ IF ~uploadOk
           THEN \* throw; journalCreated is false: remove([storageKey]) finds nothing
                /\ audio' = CleanupOnFailure(FALSE, audio, key)
                /\ jres' = Told("save", actor, 0, "error", "failed", FALSE)
                /\ UNCHANGED <<journals, outbox>>
           ELSE IF ~insertOk
           THEN \* throw; journalCreated is false: the uploaded object is removed
                /\ audio' = CleanupOnFailure(FALSE, audio \cup {key}, key)
                /\ jres' = Told("save", actor, 0, "error", "Failed to create journal entry.", FALSE)
                /\ UNCHANGED <<journals, outbox>>
           ELSE \* journalCreated is true; a failing dispatch throws
                /\ audio' = IF response # "ok"
                            THEN CleanupOnFailure(TRUE, audio \cup {key}, key)
                            ELSE audio \cup {key}
                /\ journals' = journals \cup {row}
                /\ outbox' = Append(outbox, Request("transcription", id, NoSettings, NULL, response))
                /\ jres' = IF response # "ok"
                           THEN Told("save", actor, id, "error", "dispatch failed", FALSE)
                           ELSE IF profileSaved
                           THEN Told("save", actor, id, "info", "saved", FALSE)
                           ELSE Told("save", actor, id, "error", "saved, defaults not updated", FALSE)
        /\ UNCHANGED <<db, now, sess, directs, uiInvites, receivedInvites,
                       bootstrap, pvars, tvars, schema>>

\* (variant: the update also clears the previous result)
ResummarizeUpdateClearing(j, s) ==
    [j EXCEPT !.template_id = s.template_id, !.language_code = s.language_code,
              !.transcript = NULL, !.summary = NULL]

\* .update({ template_id, language_code }).eq("id", selectedJournal.id)
ResummarizeUpdate(j, s) ==
    [j EXCEPT !.template_id = s.template_id, !.language_code = s.language_code]

\* ---- handleResummarize
\* j is the selected journal, a row the actor can read.  An update that the
\* policy journals_update filters out changes no row and reports no error.
handleResummarize(actor, id, s, response) ==
    LET j == Journal(id)
    IN
    /\ actor \in profiles
    /\ Stored(id) /\ journals_select(actor, j)
    /\ Len(outbox) < MaxOutbox
    /\ journals' = IF journals_update(actor, j)
                   THEN (journals \ {j}) \cup {set_updated_at(ResummarizeUpdate(j, s))}
                   ELSE journals
    /\ outbox' = Append(outbox, Request("resummarization", j.id, s, NULL, response))
    /\ jres' = IF response = "ok"
               THEN Told("resummarize", actor, j.id, "success", "started", FALSE)
               ELSE Told("resummarize", actor, j.id, "error", "dispatch failed", FALSE)
    /\ UNCHANGED <<db, now, sess, directs, uiInvites, receivedInvites,
                   bootstrap, pvars, tvars, schema, audio>>

\* (variant: the trigger function without its exception handler: a failing
\* storage.delete aborts the DELETE statement)
DeleteAbortsOnCleanupError(cleaned) == ~cleaned

\* exception when others then perform pg_notify(...); return old;
DeleteAborts(cleaned) == FALSE

\* trigger journals_delete_audio: perform storage.delete('audio', array[key])
delete_journal_audio(old, cleaned) ==
    IF cleaned THEN audio \ {NormalizeKey(old.audio_path)} ELSE audio

\* ---- handleDeleteJournal
\* A delete that the policy journals_delete filters out removes no row and
\* reports no error.  cleaned: storage.delete inside the trigger succeeds.
handleDeleteJournal(actor, id, cleaned, response) ==
    LET j == Journal(id)
    IN
    /\ actor \in profiles
    /\ Stored(id) /\ journals_select(actor, j)
    /\ Len(outbox) < MaxOutbox
    /\ IF journals_delete(actor, j) /\ DeleteAborts(cleaned)
       THEN \* error from the delete: throw, the webhook is not reached
            /\ jres' = Told("delete", actor, j.id, "error", "failed", FALSE)
            /\ UNCHANGED <<journals, audio, outbox>>
       ELSE /\ IF journals_delete(actor, j)
               THEN /\ journals' = journals \ {j}
                    /\ audio' = delete_journal_audio(j, cleaned)
               ELSE UNCHANGED <<journals, audio>>
            /\ outbox' = Append(outbox, Request("audio_delete", 0, NoSettings, j.audio_path, response))
            /\ jres' = Told("delete", actor, j.id, "info", "Journal deleted.",
                            response # "ok")
    /\ UNCHANGED <<db, now, sess, directs, uiInvites, receivedInvites,
                   bootstrap, pvars, tvars, schema>>

\* (variant: the callback writes whatever state the journal is in)
CompletionAppliesAlways(j) == TRUE

\* "requires the journal to currently be in processing"
CompletionApplies(j) == j.status = "processing"

Outcomes == {"processed", "error"}

\* writes transcript and summary, sets the status per outcome, updates
\* updated_at; leaves a journal that is not in processing as it is
ApplyCompletion(rows, id, result, outcome, t) ==
    {IF j.id = id /\ CompletionApplies(j)
     THEN [j EXCEPT !.transcript = result.transcript,
                    !.summary = result.summary,
                    !.status = outcome, !.updated_at = t]
     ELSE j : j \in rows}

\* ---- completeProcessing(journalId, transcript, summary, outcome)
\* The callback of the pipeline for a journal that was dispatched to it; it is
\* answered without error whether or not it wrote anything.
completeProcessing(id, result, outcome) ==
    /\ \E k \in 1..Len(outbox) :
          /\ outbox[k].hook \in {"transcription", "resummarization"}
          /\ outbox[k].journal_id = id
    /\ journals' = ApplyCompletion(journals, id, result, outcome, now)
    /\ jres' = Told("complete", NULL, id, "ok",
                    IF \E j \in journals : j.id = id /\ CompletionApplies(j)
                    THEN "written" ELSE "ignored", FALSE)
    /\ UNCHANGED <<db, now, sess, directs, uiInvites, receivedInvites,
                   bootstrap, pvars, tvars, schema, audio, outbox>>

\* Accounts A, B and C have signed up; B has joined A's workspace as a member.
InitJ ==
    /\ profiles = Users
    /\ workspaces = {[id |-> u, owner_id |-> u] : u \in Users}
    /\ members = {Member(u, u) : u \in Users} \cup {Member("A", "B")}
    /\ invites = {}
    /\ now = 0
    /\ sess = [p \in Procs |-> IdleSession]
    /\ directs = 0
    /\ uiInvites = {}
    /\ receivedInvites = {}
    /\ bootstrap = "0010"
    /\ schema \in SchemaDefs
    /\ journals = {}
    /\ audio = {}
    /\ outbox = <<>>
    /\ jres = NoResult
    /\ InitTenant

NextJ ==
    \/ Tick
    \/ \E a \in Users, w \in Users : JournalInsert(a, w)
    \/ \E a \in Users, w \in Users, s \in Settings, u \in BOOLEAN, r \in Responses,
          d \in BOOLEAN : handleSaveRecording(a, w, s, u, r, d)
    \/ \E a \in Users, id \in JournalIds, s \in Settings, r \in Responses :
          handleResummarize(a, id, s, r)
    \/ \E a \in Users, id \in JournalIds, c \in BOOLEAN, r \in Responses :
          handleDeleteJournal(a, id, c, r)
    \/ \E id \in JournalIds, x \in Payloads, o \in Outcomes :
          completeProcessing(id, x, o)

SpecJ == InitJ /\ [][NextJ]_vars

\* ------------------------------------------------- tenant tables through RLS
\* Direct table calls of an authenticated account (supabase.from(table)...).
\* A row that a USING policy filters out is not seen by the statement: an
\* UPDATE or DELETE then affects no row and reports no error.  A new row that
\* fails WITH CHECK makes the statement fail.  A policy "for update" without
\* WITH CHECK applies its USING expression to the new row as well.  A statement
\* with a WHERE clause reads the table, so the select policy applies to the
\* rows it finds and to the new row of an update.
TemplateIds == 1..MaxTemplates
VocabularyIds == 1..MaxVocabulary
Kinds == {"Std", "Custom"}
Bodies == {"b0", "b1"}
Names == {"n0", "n1"}

\* auth.role() of a signed-in account
auth_role(uid) == "authenticated"

Answer(op, actor, table, w, id, ok, rows) ==
    [op |-> op, actor |-> actor, table |-> table, workspace |-> w, id |-> id,
     ok |-> ok, rows |-> rows]

\* tenant rows stored, the seeded standard template aside
RowsStored ==
    Cardinality(templates \ {StdSeed}) + Cardinality(vocabulary) + Cardinality(journals)

\* workspace_id ... references public.workspaces(id)
WorkspaceExists(w) == \E x \in workspaces : x.id = w

\* ---- templates
\* policy templates_select_global
templates_select_global(uid, t) ==
    \/ t.kind = "Std"
    \/ (t.workspace_id # NULL /\ is_workspace_member(uid, t.workspace_id))

\* policy templates_insert_workspace
templates_insert_workspace(uid, t) ==
    \/ (t.kind = "Std" /\ auth_role(uid) = "service_role")
    \/ (t.workspace_id # NULL /\ is_workspace_member(uid, t.workspace_id))

\* (variant: any member of the workspace may update)
templates_update_any_member(uid, t) ==
    \/ (t.kind = "Std" /\ auth_role(uid) = "service_role")
    \/ (t.workspace_id # NULL /\ is_workspace_member(uid, t.workspace_id))

\* policy templates_update_workspace
templates_update_workspace(uid, t) ==
    \/ (t.kind = "Std" /\ auth_role(uid) = "service_role")
    \/ (/\ t.workspace_id # NULL
        /\ (is_core_member(uid, t.workspace_id) \/ t.created_by = uid))

\* policy templates_delete_workspace
templates_delete_workspace(uid, t) ==
    t.workspace_id # NULL /\ is_core_member(uid, t.workspace_id)

NextTemplateId == CHOOSE n \in TemplateIds : /\ \A t \in templates : t.id # n
                                             /\ \A m \in TemplateIds :
                                                   (\A t \in templates : t.id # m) => n <= m

TemplateStored(id) == \E t \in templates : t.id = id

Template(id) == CHOOSE t \in templates : t.id = id

\* select * from templates
TemplateSelect(actor) ==
    /\ actor \in profiles
    /\ ares' = Answer("select", actor, "templates", NULL, 0, TRUE,
                      {t \in templates : templates_select_global(actor, t)})
    /\ UNCHANGED <<db, now, sess, directs, uiInvites, receivedInvites, bootstrap, pvars,
                   jvars, templates, vocabulary, wsname>>

\* insert into templates (kind, workspace_id, created_by, body)
TemplateInsert(actor, w, kind, creator) ==
    LET row == [id |-> NextTemplateId, workspace_id |-> w, kind |-> kind,
                created_by |-> creator, body |-> "b0"]
    IN  /\ actor \in profiles
        /\ \E n \in TemplateIds : ~TemplateStored(n)
        /\ w # NULL => WorkspaceExists(w)
        /\ IF templates_insert_workspace(actor, row)
           THEN /\ templates' = templates \cup {row}
                /\ ares' = Answer("insert", actor, "templates", NULL, row.id, TRUE, {row})
           ELSE /\ templates' = templates
                /\ ares' = Answer("insert", actor, "templates", NULL, row.id, FALSE, {})
        /\ UNCHANGED <<db, now, sess, directs, uiInvites, receivedInvites, bootstrap, pvars,
                       jvars, vocabulary, wsname>>

\* update templates set kind = ..., body = ... where id = ...
TemplateUpdate(actor, id, kind, body) ==
    LET old == Template(id)
        new == [old EXCEPT !.kind = kind, !.body = body]
        seen == templates_select_global(actor, old) /\ templates_update_workspace(actor, old)
    IN  /\ actor \in profiles
        /\ TemplateStored(id)
        /\ IF ~seen
           THEN /\ templates' = templates
                /\ ares' = Answer("update", actor, "templates", NULL, id, TRUE, {})
           ELSE IF ~(templates_update_workspace(actor, new) /\ templates_select_global(actor, new))
           THEN /\ templates' = templates
                /\ ares' = Answer("update", actor, "templates", NULL, id, FALSE, {})
           ELSE /\ templates' = (templates \ {old}) \cup {new}
                /\ ares' = Answer("update", actor, "templates", NULL, id, TRUE, {new})
        /\ UNCHANGED <<db, now, sess, directs, uiInvites, receivedInvites, bootstrap, pvars,
                       jvars, vocabulary, wsname>>

\* delete from templates where id = ...
TemplateDelete(actor, id) ==
    LET old == Template(id)
        seen == templates_select_global(actor, old) /\ templates_delete_workspace(actor, old)
    IN  /\ actor \in profiles
        /\ TemplateStored(id)
        /\ templates' = IF seen THEN templates \ {old} ELSE templates
        /\ ares' = Answer("delete", actor, "templates", NULL, id, TRUE,
                          IF seen THEN {old} ELSE {})
        /\ UNCHANGED <<db, now, sess, directs, uiInvites, receivedInvites, bootstrap, pvars,
                       jvars, vocabulary, wsname>>

\* ---- vocabulary_entries
\* policy vocabulary_entries_rw: for all using (...) with check (...)
vocabulary_entries_rw(uid, v) == is_workspace_member(uid, v.workspace_id)

NextVocabularyId == CHOOSE n \in VocabularyIds : /\ \A v \in vocabulary : v.id # n
                                                 /\ \A m \in VocabularyIds :
                                                       (\A v \in vocabulary : v.id # m) => n <= m

VocabularyStored(id) == \E v \in vocabulary : v.id = id

VocabularyEntry(id) == CHOOSE v \in vocabulary : v.id = id

VocabularySelect(actor) ==
    /\ actor \in profiles
    /\ ares' = Answer("select", actor, "vocabulary_entries", NULL, 0, TRUE,
                      {v \in vocabulary : vocabulary_entries_rw(actor, v)})
    /\ UNCHANGED <<db, now, sess, directs, uiInvites, receivedInvites, bootstrap, pvars,
                   jvars, templates, vocabulary, wsname>>

VocabularyInsert(actor, w, creator) ==
    LET row == [id |-> NextVocabularyId, workspace_id |-> w, created_by |-> creator,
                replacement |-> "b0"]
    IN  /\ actor \in profiles
        /\ \E n \in VocabularyIds : ~VocabularyStored(n)
        /\ WorkspaceExists(w)
        /\ IF vocabulary_entries_rw(actor, row)
           THEN /\ vocabulary' = vocabulary \cup {row}
                /\ ares' = Answer("insert", actor, "vocabulary_entries", NULL, row.id, TRUE, {row})
           ELSE /\ vocabulary' = vocabulary
                /\ ares' = Answer("insert", actor, "vocabulary_entries", NULL, row.id, FALSE, {})
        /\ UNCHANGED <<db, now, sess, directs, uiInvites, receivedInvites, bootstrap, pvars,
                       jvars, templates, wsname>>

VocabularyUpdate(actor, id, replacement) ==
    LET old == VocabularyEntry(id)
        new == [old EXCEPT !.replacement = replacement]
        seen == vocabulary_entries_rw(actor, old)
    IN  /\ actor \in profiles
        /\ VocabularyStored(id)
        /\ IF ~seen
           THEN /\ vocabulary' = vocabulary
                /\ ares' = Answer("update", actor, "vocabulary_entries", NULL, id, TRUE, {})
           ELSE IF ~vocabulary_entries_rw(actor, new)
           THEN /\ vocabulary' = vocabulary
                /\ ares' = Answer("update", actor, "vocabulary_entries", NULL, id, FALSE, {})
           ELSE /\ vocabulary' = (vocabulary \ {old}) \cup {new}
                /\ ares' = Answer("update", actor, "vocabulary_entries", NULL, id, TRUE, {new})
        /\ UNCHANGED <<db, now, sess, directs, uiInvites, receivedInvites, bootstrap, pvars,
                       jvars, templates, wsname>>

VocabularyDelete(actor, id) ==
    LET old == VocabularyEntry(id)
        seen == vocabulary_entries_rw(actor, old)
    IN  /\ actor \in profiles
        /\ VocabularyStored(id)
        /\ vocabulary' = IF seen THEN vocabulary \ {old} ELSE vocabulary
        /\ ares' = Answer("delete", actor, "vocabulary_entries", NULL, id, TRUE,
                          IF seen THEN {old} ELSE {})
        /\ UNCHANGED <<db, now, sess, directs, uiInvites, receivedInvites, bootstrap, pvars,
                       jvars, templates, wsname>>

\* ---- journals
JournalSelect(actor) ==
    /\ actor \in profiles
    /\ ares' = Answer("select", actor, "journals", NULL, 0, TRUE,
                      {j \in journals : journals_select(actor, j)})
    /\ UNCHANGED <<db, now, sess, directs, uiInvites, receivedInvites, bootstrap, pvars,
                   jvars, templates, vocabulary, wsname>>

\* insert into journals (workspace_id, created_by, audio_path)
JournalInsertAs(actor, w, creator) ==
    LET row == JournalRow(NextJournalId, w, creator, DefaultStatus, NoSettings,
                          storagePath(storageKey(w, NextFileId)))
    IN  /\ actor \in profiles
        /\ FreshJournalIds # {} /\ FreshFileIds # {}
        /\ WorkspaceExists(w)
        /\ IF journals_insert(actor, row) /\ StatusCheck(row.status)
           THEN /\ journals' = journals \cup {row}
                /\ ares' = Answer("insert", actor, "journals", NULL, row.id, TRUE, {row})
           ELSE /\ journals' = journals
                /\ ares' = Answer("insert", actor, "journals", NULL, row.id, FALSE, {})
        /\ UNCHANGED <<db, now, sess, directs, uiInvites, receivedInvites, bootstrap, pvars,
                       schema, audio, outbox, jres, templates, vocabulary, wsname>>

\* update journals set summary = ... where id = ...
JournalUpdate(actor, id, summary) ==
    LET old == Journal(id)
        new == set_updated_at([old EXCEPT !.summary = summary])
        seen == journals_select(actor, old) /\ journals_update(actor, old)
    IN  /\ actor \in profiles
        /\ Stored(id)
        /\ IF ~seen
           THEN /\ journals' = journals
                /\ ares' = Answer("update", actor, "journals", NULL, id, TRUE, {})
           ELSE IF ~(journals_update(actor, new) /\ journals_select(actor, new))
           THEN /\ journals' = journals
                /\ ares' = Answer("update", actor, "journals", NULL, id, FALSE, {})
           ELSE /\ journals' = (journals \ {old}) \cup {new}
                /\ ares' = Answer("update", actor, "journals", NULL, id, TRUE, {new})
        /\ UNCHANGED <<db, now, sess, directs, uiInvites, receivedInvites, bootstrap, pvars,
                       schema, audio, outbox, jres, templates, vocabulary, wsname>>

\* delete from journals where id = ...; the trigger removes the audio object
JournalDelete(actor, id) ==
    LET old == Journal(id)
        seen == journals_select(actor, old) /\ journals_delete(actor, old)
    IN  /\ actor \in profiles
        /\ Stored(id)
        /\ journals' = IF seen THEN journals \ {old} ELSE journals
        /\ audio' = IF seen THEN delete_journal_audio(old, TRUE) ELSE audio
        /\ ares' = Answer("delete", actor, "journals", NULL, id, TRUE,
                          IF seen THEN {old} ELSE {})
        /\ UNCHANGED <<db, now, sess, directs, uiInvites, receivedInvites, bootstrap, pvars,
                       schema, outbox, jres, templates, vocabulary, wsname>>

\* Accounts A, B and C have signed up; B has joined A's workspace as a member.
\* The journals table is the one of the consolidated schema.
InitTenantData ==
    /\ profiles = Users
    /\ workspaces = {[id |-> u, owner_id |-> u] : u \in Users}
    /\ members = {Member(u, u) : u \in Users} \cup {Member("A", "B")}
    /\ invites = {}
    /\ now = 0
    /\ sess = [p \in Procs |-> IdleSession]
    /\ directs = 0
    /\ InitOthers

\* One connection; direct writes to the membership and tenant tables.  The
\* tenant rows are those of workspace A (owner A, member B, stranger C); at
\* most MaxRows of them are stored at a time.
TenantWorkspaces == {"A"}

NextTenant ==
    \/ sess[1].pc = "idle" /\ \E a \in Users, w \in TenantWorkspaces, e \in InviteEmails :
          InviteInsert(a, w, e, NextToken, NullTime)
    \/ sess[1].pc = "idle" /\ \E a \in Users, w \in TenantWorkspaces, u \in Users :
          MemberInsert(a, w, u)
    \/ sess[1].pc = "idle" /\ \E a \in Users, w \in TenantWorkspaces, u \in Users :
          MemberDelete(a, Member(w, u))
    \/ \E u \in Users, t \in Tokens : accept_invite(1, u, t)
    \/ \E u \in Users, i \in InviteIds : revoke_invite(1, u, i)
    \/ AcceptInsert(1)
    \/ AcceptUpdate(1)
    \/ RevokeDelete(1)
    \/ RevokeUpdate(1)
    \/ Ack(1)
    \/ sess[1].pc = "idle" /\ \E a \in Users : TemplateSelect(a)
    \/ sess[1].pc = "idle" /\ RowsStored < MaxRows
          /\ \E a \in Users, w \in TenantWorkspaces \cup {NULL}, k \in Kinds, c \in Users :
                TemplateInsert(a, w, k, c)
    \/ sess[1].pc = "idle" /\ \E a \in Users, id \in TemplateIds \cup {0}, k \in Kinds,
                                  b \in Bodies : TemplateUpdate(a, id, k, b)
    \/ sess[1].pc = "idle" /\ \E a \in Users, id \in TemplateIds \cup {0} : TemplateDelete(a, id)
    \/ sess[1].pc = "idle" /\ \E a \in Users : VocabularySelect(a)
    \/ sess[1].pc = "idle" /\ RowsStored < MaxRows
          /\ \E a \in Users, w \in TenantWorkspaces, c \in Users : VocabularyInsert(a, w, c)
    \/ sess[1].pc = "idle" /\ \E a \in Users, id \in VocabularyIds, b \in Bodies :
          VocabularyUpdate(a, id, b)
    \/ sess[1].pc = "idle" /\ \E a \in Users, id \in VocabularyIds : VocabularyDelete(a, id)
    \/ sess[1].pc = "idle" /\ \E a \in Users : JournalSelect(a)
    \/ sess[1].pc = "idle" /\ RowsStored < MaxRows
          /\ \E a \in Users, w \in TenantWorkspaces, c \in Users : JournalInsertAs(a, w, c)
    \/ sess[1].pc = "idle" /\ \E a \in Users, id \in JournalIds, x \in {"s1", "s2"} :
          JournalUpdate(a, id, x)
    \/ sess[1].pc = "idle" /\ \E a \in Users, id \in JournalIds : JournalDelete(a, id)

SpecTenant == InitTenantData /\ [][NextTenant]_vars

\* ------------------------------------------------------ the workspaces table
\* Row level security is enabled on public.workspaces and its only policy is
\* "Members can view their workspaces" (for select).  A command without a
\* policy is denied: an insert fails, an update or delete finds no row.
WorkspaceSelectPolicy(uid, w) == is_workspace_member(uid, w)

\* no policy for insert, update or delete
WorkspaceWritePolicy(uid, w) == FALSE

NameInputs == Names \cup {""}

\* update workspaces set name = ... where id = ... returning id, name
WorkspaceUpdateRows(actor, w) ==
    IF WorkspaceExists(w) /\ WorkspaceSelectPolicy(actor, w) /\ WorkspaceWritePolicy(actor, w)
    THEN {w} ELSE {}

WorkspaceUpdate(actor, w, name) ==
    /\ actor \in profiles
    /\ wsname' = [x \in Users |-> IF x \in WorkspaceUpdateRows(actor, w) THEN name ELSE wsname[x]]
    /\ ares' = Answer("update", actor, "workspaces", w, 0, TRUE,
                      {[id |-> x, name |-> name] : x \in WorkspaceUpdateRows(actor, w)})
    /\ UNCHANGED <<db, now, sess, directs, uiInvites, receivedInvites, bootstrap, pvars,
                   jvars, templates, vocabulary>>

\* insert into workspaces (id, owner_id, name)
WorkspaceInsert(actor, w, name) ==
    /\ actor \in profiles
    /\ IF ~WorkspaceExists(w) /\ WorkspaceWritePolicy(actor, w)
       THEN /\ workspaces' = workspaces \cup {[id |-> w, owner_id |-> actor]}
            /\ wsname' = [wsname EXCEPT ![w] = name]
            /\ ares' = Answer("insert", actor, "workspaces", w, 0, TRUE, {[id |-> w, name |-> name]})
       ELSE /\ UNCHANGED <<workspaces, wsname>>
            /\ ares' = Answer("insert", actor, "workspaces", w, 0, FALSE, {})
    /\ UNCHANGED <<profiles, members, invites, now, sess, directs, uiInvites, receivedInvites,
                   bootstrap, pvars, jvars, templates, vocabulary>>

\* delete from workspaces where id = ...
WorkspaceDelete(actor, w) ==
    /\ actor \in profiles
    /\ workspaces' = {x \in workspaces : x.id \notin WorkspaceUpdateRows(actor, w)}
    /\ ares' = Answer("delete", actor, "workspaces", w, 0, TRUE,
                      {[id |-> x, name |-> wsname[x]] : x \in WorkspaceUpdateRows(actor, w)})
    /\ UNCHANGED <<profiles, members, invites, now, sess, directs, uiInvites, receivedInvites,
                   bootstrap, pvars, jvars, templates, vocabulary, wsname>>

\* Settings page, "Save".  The page holds the workspace whose id is the
\* account's own id, with the name it read from the table.  A success message
\* leaves the page showing the submitted name, whether or not the update
\* returned a row: ares.rows holds the name and the message tone that the
\* page shows afterwards.
Saved(actor, w, tone, shown) ==
    Answer("handleSave", actor, "workspaces", w, 0, tone = "success",
           {[id |-> w, name |-> shown, tone |-> tone]})

handleSave(actor, workspaceId, workspaceNameInput, shouldUpdateDisplayName) ==
    LET isCoreMember == actor = workspaceId
        currentWorkspaceName == wsname[workspaceId]
        shouldUpdateWorkspaceName == workspaceNameInput # currentWorkspaceName
        updated == WorkspaceUpdateRows(actor, workspaceId)
    IN  /\ actor \in profiles
        /\ workspaceId = actor
        /\ WorkspaceExists(workspaceId) /\ WorkspaceSelectPolicy(actor, workspaceId)
        /\ IF workspaceNameInput = ""
           THEN /\ ares' = Saved(actor, workspaceId, "error", currentWorkspaceName)
                /\ wsname' = wsname
           ELSE IF ~isCoreMember /\ shouldUpdateWorkspaceName
           THEN /\ ares' = Saved(actor, workspaceId, "error", currentWorkspaceName)
                /\ wsname' = wsname
           ELSE IF ~shouldUpdateDisplayName /\ ~shouldUpdateWorkspaceName
           THEN /\ ares' = Saved(actor, workspaceId, "info", currentWorkspaceName)
                /\ wsname' = wsname
           ELSE /\ wsname' = [x \in Users |-> IF shouldUpdateWorkspaceName /\ x \in updated
                                               THEN workspaceNameInput ELSE wsname[x]]
                /\ ares' = Saved(actor, workspaceId, "success", workspaceNameInput)
        /\ UNCHANGED <<db, now, sess, directs, uiInvites, receivedInvites, bootstrap, pvars,
                       jvars, templates, vocabulary>>

\* The settings form and direct calls on the workspaces table, with the owner
\* adding and removing members.
NextWs ==
    \/ \E a \in Users, w \in Users, u \in Users : MemberInsert(a, w, u)
    \/ \E a \in Users, w \in Users, u \in Users : MemberDelete(a, Member(w, u))
    \/ \E a \in Users, w \in Users, n \in NameInputs, d \in BOOLEAN : handleSave(a, w, n, d)
    \/ \E a \in Users, w \in Users, n \in Names : WorkspaceUpdate(a, w, n)
    \/ \E a \in Users, w \in Users \cup {"D"}, n \in Names : WorkspaceInsert(a, w, n)
    \/ \E a \in Users, w \in Users : WorkspaceDelete(a, w)

SpecWs == InitTenantData /\ [][NextWs]_vars

\* ---------------------------------------------------- the invites table
\* (variant: any member of the workspace passes)
invites_any_member(uid, i) == is_workspace_member(uid, i.workspace_id)

\* policy invites_core_only: for all using (...) with check (...)
invites_core_only(uid, i) == is_core_member(uid, i.workspace_id)

InviteStored(id) == \E i \in invites : i.id = id

Invite(id) == CHOOSE i \in invites : i.id = id

\* select * from invites: the rows come with their tokens
InviteSelect(actor) ==
    /\ actor \in profiles
    /\ ares' = Answer("select", actor, "invites", NULL, 0, TRUE,
                      {i \in invites : invites_core_only(actor, i)})
    /\ UNCHANGED <<db, now, sess, directs, uiInvites, receivedInvites, bootstrap, pvars,
                   jvars, templates, vocabulary, wsname>>

\* update invites set workspace_id = ..., status = ... where id = ...
InviteUpdate(actor, id, w, status) ==
    LET old == Invite(id)
        new == [old EXCEPT !.workspace_id = w, !.status = status]
        seen == invites_core_only(actor, old)
    IN  /\ actor \in profiles
        /\ InviteStored(id)
        /\ WorkspaceExists(w)
        /\ IF ~seen
           THEN /\ invites' = invites
                /\ ares' = Answer("update", actor, "invites", NULL, id, TRUE, {})
           ELSE IF ~invites_core_only(actor, new)
           THEN /\ invites' = invites
                /\ ares' = Answer("update", actor, "invites", NULL, id, FALSE, {})
           ELSE /\ invites' = (invites \ {old}) \cup {new}
                /\ ares' = Answer("update", actor, "invites", NULL, id, TRUE, {new})
        /\ UNCHANGED <<profiles, workspaces, members, now, sess, directs, uiInvites,
                       receivedInvites, bootstrap, pvars, jvars, templates, vocabulary, wsname>>

\* delete from invites where id = ...
InviteDelete(actor, id) ==
    LET old == Invite(id)
        seen == invites_core_only(actor, old)
    IN  /\ actor \in profiles
        /\ InviteStored(id)
        /\ invites' = IF seen THEN invites \ {old} ELSE invites
        /\ ares' = Answer("delete", actor, "invites", NULL, id, TRUE,
                          IF seen THEN {old} ELSE {})
        /\ UNCHANGED <<profiles, workspaces, members, now, sess, directs, uiInvites,
                       receivedInvites, bootstrap, pvars, jvars, templates, vocabulary, wsname>>

\* Direct calls on the invites table next to the invite operations and the
\* invitee's list, one call at a time.
NextInv ==
    \/ sess[1].pc = "idle" /\ Tick
    \/ sess[1].pc = "idle" /\ \E a \in Users, w \in TenantWorkspaces, e \in InviteEmails,
                                  x \in ExpiryChoices : InviteInsert(a, w, e, NextToken, x)
    \/ sess[1].pc = "idle" /\ \E a \in Users : InviteSelect(a)
    \/ sess[1].pc = "idle" /\ \E a \in Users, i \in InviteIds, w \in Users,
                                  st \in {"pending", "revoked"} : InviteUpdate(a, i, w, st)
    \/ sess[1].pc = "idle" /\ \E a \in Users, i \in InviteIds : InviteDelete(a, i)
    \/ sess[1].pc = "idle" /\ \E u \in Users : loadReceivedInvites(u)
    \/ \E u \in Users, t \in Tokens : accept_invite(1, u, t)
    \/ \E u \in Users, i \in InviteIds : revoke_invite(1, u, i)
    \/ AcceptInsert(1)
    \/ AcceptUpdate(1)
    \/ RevokeDelete(1)
    \/ RevokeUpdate(1)
    \/ Ack(1)

SpecInv == InitTenantData /\ [][NextInv]_vars

\* ------------------------------------------- processing progress and refresh
\* Times are seconds; a progress is kept in thousandths (1000 is "done by the
\* estimate").  The rate divisor 8.5 is kept as 85 tenths.
PROCESSING_RATE_DIVISOR_TENTHS == 85
DEFAULT_PROCESSING_SECONDS == 70
MIN_PROCESSING_SECONDS == 20
PROCESSING_REFRESH_INITIAL_DELAY_MS == 20000
PROCESSING_REFRESH_SLOW_DELAY_MS == 18000
PROCESSING_REFRESH_MEDIUM_DELAY_MS == 15000
PROCESSING_REFRESH_FAST_DELAY_MS == 10000
PROCESSING_REFRESH_MAX_ATTEMPTS == 5

\* parseDuration(journal.meta): what the processor left in meta.duration_sec
\* (0 stands for a meta without a usable duration)
Durations == {0, 85, 340}

\* Date.now() of the browser, in seconds
ClockReadings == {0, 35, 1000}

\* estimated seconds, times PROCESSING_RATE_DIVISOR_TENTHS
getEstimatedProcessingSeconds(durationSeconds) ==
    IF durationSeconds > 0
    THEN IF durationSeconds * 10 > MIN_PROCESSING_SECONDS * PROCESSING_RATE_DIVISOR_TENTHS
         THEN durationSeconds * 10
         ELSE MIN_PROCESSING_SECONDS * PROCESSING_RATE_DIVISOR_TENTHS
    ELSE DEFAULT_PROCESSING_SECONDS * PROCESSING_RATE_DIVISOR_TENTHS

getJournalProcessingProgress(journal, durationSeconds, dateNow) ==
    LET estimated == getEstimatedProcessingSeconds(durationSeconds)
        elapsedSeconds == IF dateNow > journal.updated_at THEN dateNow - journal.updated_at ELSE 0
    IN  (elapsedSeconds * PROCESSING_RATE_DIVISOR_TENTHS * 1000) \div estimated

determineProcessingRefreshDelay(progress, attempt) ==
    IF progress >= 900 THEN PROCESSING_REFRESH_FAST_DELAY_MS
    ELSE IF progress >= 750 THEN PROCESSING_REFRESH_MEDIUM_DELAY_MS
    ELSE IF progress >= 500 THEN PROCESSING_REFRESH_SLOW_DELAY_MS
    ELSE IF attempt = 0 THEN PROCESSING_REFRESH_INITIAL_DELAY_MS
    ELSE PROCESSING_REFRESH_SLOW_DELAY_MS

\* reduce(...): the highest progress of the journals, each capped at 1
highestProgress(processingJournals, durationSeconds, dateNow) ==
    LET capped(j) == LET g == getJournalProcessingProgress(j, durationSeconds, dateNow)
                     IN  IF g < 1000 THEN g ELSE 1000
    IN  IF processingJournals = {} THEN 0
        ELSE CHOOSE m \in {capped(j) : j \in processingJournals} :
                \A j \in processingJournals : capped(j) <= m

\* useEffect on [currentWorkspaceId, journals]: runs when the page's rows are
\* replaced.  It arms at most one timer and writes only its own ref.
processingRefreshEffect(pg, durationSeconds, dateNow) ==
    LET processingJournals == {j \in pg.journals : j.status = "processing"}
        processingKey == <<pg.workspace, {j.id : j \in processingJournals}>>
        cleared == [pg EXCEPT !.timeoutId = FALSE, !.delay = 0, !.attempts = 0,
                              !.processingKey = <<NULL, {}>>]
        keyed == IF pg.processingKey # processingKey
                 THEN [pg EXCEPT !.timeoutId = FALSE, !.delay = 0, !.attempts = 0,
                                 !.processingKey = processingKey]
                 ELSE pg
    IN  IF pg.workspace = NULL \/ processingJournals = {} THEN cleared
        ELSE IF keyed.timeoutId THEN keyed
        ELSE IF keyed.attempts >= PROCESSING_REFRESH_MAX_ATTEMPTS THEN keyed
        ELSE [keyed EXCEPT
                 !.delay = determineProcessingRefreshDelay(
                              highestProgress(processingJournals, durationSeconds, dateNow),
                              keyed.attempts),
                 !.attempts = keyed.attempts + 1,
                 !.timeoutId = TRUE]

\* supabase.from("journals").select(...).eq("workspace_id", ...)
journalsQuery(actor, w) ==
    {j \in journals : journals_select(actor, j) /\ j.workspace_id = w}

\* loadJournals: the page opens, or its filters change
loadJournals(actor, w, durationSeconds, dateNow) ==
    /\ actor \in profiles
    /\ page.user \in {NULL, actor}
    /\ is_workspace_member(actor, w)
    /\ page' = processingRefreshEffect(
                   [page EXCEPT !.user = actor, !.workspace = w,
                                !.journals = journalsQuery(actor, w)],
                   durationSeconds, dateNow)
    /\ UNCHANGED <<db, now, sess, directs, uiInvites, receivedInvites, bootstrap,
                   view, ctx, avars, jvars, tvars>>

\* (variant: the refresh gives up on a journal that is past its estimate and
\* marks it failed)
processingRefreshTimeoutExpiring(durationSeconds, dateNow) ==
    /\ page.timeoutId
    /\ journals' = {IF /\ j \in page.journals
                        /\ j.status = "processing"
                        /\ getJournalProcessingProgress(j, durationSeconds, dateNow) >= 1000
                     THEN [j EXCEPT !.status = "failed"] ELSE j : j \in journals}
    /\ page' = processingRefreshEffect(
                   [page EXCEPT !.timeoutId = FALSE, !.delay = 0,
                                !.journals = journalsQuery(page.user, page.workspace)],
                   durationSeconds, dateNow)
    /\ UNCHANGED <<db, now, sess, directs, uiInvites, receivedInvites, bootstrap,
                   view, ctx, avars, tvars, schema, audio, outbox, jres>>

\* the timer fires: state.timeoutId = null; loadJournals({ silent: true })
processingRefreshTimeout(durationSeconds, dateNow) ==
    /\ page.timeoutId
    /\ page' = processingRefreshEffect(
                   [page EXCEPT !.timeoutId = FALSE, !.delay = 0,
                                !.journals = journalsQuery(page.user, page.workspace)],
                   durationSeconds, dateNow)
    /\ UNCHANGED <<db, now, sess, directs, uiInvites, receivedInvites, bootstrap,
                   view, ctx, avars, jvars, tvars>>

\* the accounts at the page: the workspace's core member and a member
ProgUsers == {"A", "B"}

\* one choice in the form, and a webhook that answers or cannot be reached
ProgSettings == {[template_id |-> NULL, language_code |-> "en"]}
ProgResponses == {"ok", "network_error"}

\* The journals page next to the operations that write journals.
NextProg ==
    \/ Tick
    \/ \E a \in ProgUsers, w \in TenantWorkspaces, s \in ProgSettings, u \in BOOLEAN, r \in ProgResponses,
          d \in BOOLEAN : handleSaveRecording(a, w, s, u, r, d)
    \/ \E a \in ProgUsers, w \in TenantWorkspaces, d \in Durations, t \in ClockReadings :
          loadJournals(a, w, d, t)
    \/ \E d \in Durations, t \in ClockReadings : processingRefreshTimeout(d, t)
    \/ \E a \in ProgUsers, id \in JournalIds, s \in ProgSettings, r \in ProgResponses :
          handleResummarize(a, id, s, r)
    \/ \E a \in ProgUsers, id \in JournalIds, c \in BOOLEAN, r \in ProgResponses :
          handleDeleteJournal(a, id, c, r)
    \/ \E id \in JournalIds, x \in Payloads, o \in Outcomes :
          completeProcessing(id, x, o)

SpecProg == InitJ /\ [][NextProg]_vars

\* ---------------------------------------------------------------------------
\* The journals page with its requests in flight (part_010:783-1030).
\*
\* loadJournals reads the list parameters from its closure, takes the next
\* request id, sends the list and the count query, and applies the answer only
\* if its request id is still the one in journalsRequestIdRef. The refresh
\* effect runs whenever the workspace, the displayed rows or the identity of
\* loadJournals change; the timer it sets keeps the loadJournals it was set with.
PAGE_SIZE == 10

MaxRequests == 7
MaxInFlight == 2

ViewUser == "B"
ViewWorkspaces == {"A", "B"}
StatusFilters == {{}, {"processing"}}
SortOrders == {"asc", "desc"}
ViewPages == {1, 2}

ListParams ==
    [workspace : ViewWorkspaces, statusFilters : StatusFilters,
     sortOrder : SortOrders, page : ViewPages]

\* the rows of the store while the page is open: one journal of workspace A
\* in processing and one processed
ViewRows ==
    {JournalRow(1, "A", "A", "processing", NoSettings, storagePath(storageKey("A", 1))),
     JournalRow(2, "A", "A", "processed", NoSettings, storagePath(storageKey("A", 2)))}

\* applyFilters: .eq("workspace_id", currentWorkspaceId), .in("status", statusFilters)
applyFilters(rows, q) ==
    {j \in rows : /\ j.workspace_id = q.workspace
                  /\ q.statusFilters # {} => j.status \in q.statusFilters}

\* .order("created_at", { ascending: sortOrder === "asc" }); ids grow with
\* the time of creation
order(rows, sortOrder) ==
    CHOOSE s \in [1..Cardinality(rows) -> rows] :
        \A a, b \in 1..Cardinality(rows) :
            a < b => IF sortOrder = "asc" THEN s[a].id < s[b].id ELSE s[a].id > s[b].id

\* .range(pageStart, pageEnd)
range(s, pg) ==
    LET pageStart == (pg - 1) * PAGE_SIZE
        pageEnd == pageStart + PAGE_SIZE - 1
    IN  [n \in 1..(IF Len(s) > pageEnd + 1 THEN PAGE_SIZE
                   ELSE IF Len(s) > pageStart THEN Len(s) - pageStart ELSE 0)
            |-> s[pageStart + n]]

\* the answers of journalsQuery and countQuery for the parameters q
queryResult(q) ==
    LET found == applyFilters({j \in journals : journals_select(ViewUser, j)}, q)
    IN  [data |-> range(order(found, q.sortOrder), q.page),
         count |-> Cardinality(found)]

\* count > 0 ? Math.ceil(count / PAGE_SIZE) : 1
totalPagesOf(count) ==
    IF count > 0 THEN (count + PAGE_SIZE - 1) \div PAGE_SIZE ELSE 1

\* (variant: every answer is applied)
isAnyRequest(v, requestId) == TRUE

\* isLatestRequest: journalsRequestIdRef.current === requestId
isLatestRequest(v, requestId) == v.journalsRequestIdRef = requestId

\* (variant: a timer that was set is never cleared)
keepTimeout(timers, timeoutId) == timers

\* window.clearTimeout(state.timeoutId)
clearTimeout(timers, timeoutId) == {t \in timers : t.id # timeoutId}

\* window.setTimeout: the id of the new timer
newTimeoutId(timers) ==
    CHOOSE n \in 1..(Cardinality(timers) + 1) : \A t \in timers : t.id # n

\* the first lines of loadJournals: requestId = journalsRequestIdRef.current + 1
loadJournalsStart(v, q) ==
    [v EXCEPT !.journalsRequestIdRef = @ + 1,
              !.requests = @ \cup {[requestId |-> v.journalsRequestIdRef + 1, params |-> q]}]

viewProcessingKey(v) ==
    <<v.params.workspace,
      {v.journals[n].id : n \in {m \in DOMAIN v.journals : v.journals[m].status = "processing"}}>>

\* the refresh effect (part_010:969-1030) for the rows displayed and the
\* loadJournals of this render, whose closure holds the current parameters
refreshEffect(v) ==
    LET key == viewProcessingKey(v)
        st == v.state
    IN  IF key[2] = {}
        THEN [v EXCEPT !.timers = IF st.timeoutId # 0 THEN clearTimeout(@, st.timeoutId) ELSE @,
                       !.state = [timeoutId |-> 0, attempts |-> 0, processingKey |-> <<NULL, {}>>]]
        ELSE LET cleared == IF st.processingKey # key /\ st.timeoutId # 0
                            THEN clearTimeout(v.timers, st.timeoutId) ELSE v.timers
                 st1 == IF st.processingKey # key
                        THEN [timeoutId |-> 0, attempts |-> 0, processingKey |-> key]
                        ELSE st
             IN  IF st1.timeoutId # 0 \/ st1.attempts >= PROCESSING_REFRESH_MAX_ATTEMPTS
                 THEN [v EXCEPT !.timers = cleared, !.state = st1]
                 ELSE [v EXCEPT
                         !.timers = cleared \cup {[id |-> newTimeoutId(cleared), params |-> v.params]},
                         !.state = [st1 EXCEPT !.attempts = @ + 1,
                                               !.timeoutId = newTimeoutId(cleared)]]

\* the page after its first render: no rows, the first request sent
OpenedView(q) ==
    loadJournalsStart(
        [user |-> ViewUser, params |-> q, journals |-> <<>>, totalCount |-> 0,
         totalPages |-> 1, failed |-> FALSE, journalsRequestIdRef |-> 0,
         requests |-> {}, timers |-> {},
         state |-> [timeoutId |-> 0, attempts |-> 0, processingKey |-> <<NULL, {}>>],
         last |-> [requestId |-> 0, applied |-> FALSE]], q)

\* the user picks another workspace, status filter or sort order: the next
\* render has a new loadJournals, the load effect calls it and the refresh
\* effect runs again
setParams(q) ==
    /\ view.user # NULL
    /\ q # view.params /\ q.page = view.params.page
    /\ view.journalsRequestIdRef < MaxRequests
    /\ Cardinality(view.requests) < MaxInFlight
    /\ view' = refreshEffect(loadJournalsStart([view EXCEPT !.params = q], q))
    /\ UNCHANGED <<db, now, sess, directs, uiInvites, receivedInvites, bootstrap,
                   page, ctx, avars, jvars, tvars>>

\* the answer to request r arrives (ok: both queries succeeded)
journalsResponse(r, ok) ==
    LET v0 == [view EXCEPT !.requests = @ \ {r},
                           !.last = [requestId |-> r.requestId,
                                     applied |-> isLatestRequest(view, r.requestId)]]
        res == queryResult(r.params)
        nextTotalPages == totalPagesOf(res.count)
        shown == [v0 EXCEPT !.journals = res.data, !.totalCount = res.count,
                            !.totalPages = nextTotalPages, !.failed = FALSE]
        clamped == [shown EXCEPT !.params.page = nextTotalPages]
    IN  /\ view.user # NULL
        /\ r \in view.requests
        /\ view' =
             IF ~isLatestRequest(view, r.requestId) THEN v0
             ELSE IF ~ok
             THEN refreshEffect([v0 EXCEPT !.journals = <<>>, !.totalPages = 1,
                                           !.totalCount = 0, !.failed = TRUE])
             ELSE IF r.params.page > nextTotalPages /\ shown.params.page # nextTotalPages
             THEN \* setPage(nextTotalPages): a new loadJournals, called by the load effect
                  refreshEffect(loadJournalsStart(clamped, clamped.params))
             ELSE refreshEffect(shown)
        /\ view'.journalsRequestIdRef <= MaxRequests
        /\ UNCHANGED <<db, now, sess, directs, uiInvites, receivedInvites, bootstrap,
                       page, ctx, avars, jvars, tvars>>

\* a pending timer fires: state.timeoutId = null; void loadJournals({ silent: true })
\* with the loadJournals the timer was set with
refreshTimeout(t) ==
    /\ view.user # NULL
    /\ t \in view.timers
    /\ view.journalsRequestIdRef < MaxRequests
    /\ Cardinality(view.requests) < MaxInFlight
    /\ view' = loadJournalsStart([view EXCEPT !.timers = @ \ {t},
                                              !.state.timeoutId = 0], t.params)
    /\ UNCHANGED <<db, now, sess, directs, uiInvites, receivedInvites, bootstrap,
                   page, ctx, avars, jvars, tvars>>

InitView ==
    /\ profiles = Users
    /\ workspaces = {[id |-> u, owner_id |-> u] : u \in Users}
    /\ members = {Member(u, u) : u \in Users} \cup {Member("A", "B")}
    /\ invites = {}
    /\ now = 0
    /\ sess = [p \in Procs |-> IdleSession]
    /\ directs = 0
    /\ uiInvites = {}
    /\ receivedInvites = {}
    /\ bootstrap = "0010"
    /\ schema = "0002"
    /\ journals = ViewRows
    /\ audio = {NormalizeKey(j.audio_path) : j \in ViewRows}
    /\ outbox = <<>>
    /\ jres = NoResult
    /\ page = NoPage
    /\ ctx = NoCtx
    /\ InitAvatars
    /\ templates = {StdSeed}
    /\ vocabulary = {}
    /\ wsname = [w \in Users |-> DefaultName]
    /\ ares = NoAnswer
    /\ \E q \in ListParams : q.workspace = "A" /\ view = OpenedView(q)

NextView ==
    \/ \E q \in ListParams : setParams(q)
    \/ \E n \in 1..MaxRequests, q \in ListParams, ok \in BOOLEAN :
          journalsResponse([requestId |-> n, params |-> q], ok)
    \/ \E n \in 1..MaxRequests, q \in ListParams :
          refreshTimeout([id |-> n, params |-> q])

SpecView == InitView /\ [][NextView]_vars

\* ---------------------------------------------------------------------------
\* resolveWorkspaceContext (src/app/lib/workspaces.ts:36-153): the workspaces
\* of the signed-in user and the one to make active.
StoredIds == Users \cup {NULL}

\* the orders in which a query without ORDER BY may return the rows of S
Orders(S) ==
    {s \in [1..Cardinality(S) -> S] : \A a, b \in 1..Cardinality(S) : a # b => s[a] # s[b]}

\* select workspace_id from workspace_members where user_id = userId, under the
\* select policies of workspace_members
membershipIds(userId) ==
    {m.workspace_id : m \in {x \in members :
        /\ x.user_id = userId
        /\ (x.user_id = userId \/ is_core_member(userId, x.workspace_id))}}

\* select id, name from workspaces where id in workspaceIds, under "Members can
\* view their workspaces"
workspaceRows(userId, workspaceIds) ==
    {[id |-> w.id, name |-> wsname[w.id]] :
        w \in {x \in workspaces : /\ x.id \in workspaceIds
                                  /\ WorkspaceSelectPolicy(userId, x.id)}}

\* workspaceIds.map(id => name ? { id, name } : null).filter(not null)
summariesOf(workspaceIds, rows) ==
    SelectSeq([n \in DOMAIN workspaceIds |->
                  IF \E r \in rows : r.id = workspaceIds[n] /\ r.name # ""
                  THEN CHOOSE r \in rows : r.id = workspaceIds[n]
                  ELSE [id |-> NULL, name |-> ""]],
              LAMBDA r : r.id # NULL)

Outcome(userId, stored, owner, summaries, active, status, persist) ==
    [userId |-> userId, storedWorkspaceId |-> stored, ownerWorkspaceId |-> owner,
     workspaces |-> summaries, activeWorkspaceId |-> active, status |-> status,
     shouldPersistSelection |-> persist]

\* (variant: an empty outcome never asks to persist)
emptyNeverPersists(stored) == FALSE

\* the empty outcomes: shouldPersistSelection: storedWorkspaceId !== null
emptyPersists(stored) == stored # NULL

\* (variant: the first workspace is taken without looking at the own one)
fallbackFirst(owner, summaries, validIds) == summaries[1].id

\* coreWorkspaceId ?? summaries[0]?.id ?? null
fallbackWorkspaceId(owner, summaries, validIds) ==
    IF owner # NULL /\ owner \in validIds THEN owner ELSE summaries[1].id

resolveWorkspaceContext(userId, stored, owner, workspaceIds, membershipError, workspaceError) ==
    LET rows == workspaceRows(userId, {workspaceIds[n] : n \in DOMAIN workspaceIds})
        summaries == summariesOf(workspaceIds, rows)
        validIds == {summaries[n].id : n \in DOMAIN summaries}
        storedValid == stored # NULL /\ stored \in validIds
        active == IF storedValid THEN stored
                  ELSE fallbackWorkspaceId(owner, summaries, validIds)
        persist0 == IF storedValid THEN FALSE ELSE stored # active
        persist == IF stored # NULL /\ stored \notin validIds THEN TRUE ELSE persist0
    IN  /\ userId \in profiles
        /\ workspaceIds \in Orders(membershipIds(userId))
        /\ ctx' =
             IF membershipError
             THEN Outcome(userId, stored, owner, <<>>, NULL, "error", FALSE)
             ELSE IF Len(workspaceIds) = 0
             THEN Outcome(userId, stored, owner, <<>>, NULL, "empty", emptyPersists(stored))
             ELSE IF workspaceError
             THEN Outcome(userId, stored, owner, <<>>, NULL, "error", FALSE)
             ELSE IF rows = {} \/ Len(summaries) = 0
             THEN Outcome(userId, stored, owner, <<>>, NULL, "empty", emptyPersists(stored))
             ELSE Outcome(userId, stored, owner, summaries, active, "success", persist)
        /\ UNCHANGED <<db, now, sess, directs, uiInvites, receivedInvites, bootstrap,
                       page, view, avars, jvars, tvars>>

\* the account whose context is resolved
CtxUser == "B"

\* every account has signed up; the other owners hold their own membership and
\* the memberships of CtxUser are any of those the membership operations can
\* leave behind
InitCtx ==
    /\ profiles = Users
    /\ workspaces = {[id |-> u, owner_id |-> u] : u \in Users}
    /\ \E S \in SUBSET Users :
          members = {Member(u, u) : u \in Users \ {CtxUser}} \cup {Member(w, CtxUser) : w \in S}
    /\ invites = {}
    /\ now = 0
    /\ sess = [p \in Procs |-> IdleSession]
    /\ directs = 0
    /\ InitOthers

NextCtx ==
    \/ \E a \in Users, w \in Users, u \in Users : MemberInsert(a, w, u)
    \/ \E a \in Users, w \in Users, u \in Users : MemberDelete(a, Member(w, u))
    \/ \E u \in {CtxUser}, stored \in StoredIds, owner \in StoredIds,
          ids \in UNION {Orders(S) : S \in SUBSET Users}, e1 \in BOOLEAN, e2 \in BOOLEAN :
          resolveWorkspaceContext(u, stored, owner, ids, e1, e2)

SpecCtx == InitCtx /\ [][NextCtx]_vars

\* ---------------------------------------------------------------------------
\* The avatar detail page (src/app/avatars/[id]/page.tsx): the effect that
\* polls the avatar while its status is neither ready nor failed.
POLL_INTERVALS == <<5000, 10000, 20000, 40000, 80000>>

MaxPolls == 3

AvatarStatuses == {"pending", "generating", "ready", "failed"}
Terminal == {"ready", "failed"}

\* one run of the effect: its cancelled flag and where its pollAvatar stands
PollChain(attempt, cancelled, pc) == [attempt |-> attempt, cancelled |-> cancelled, pc |-> pc]

\* the effect body for the avatar displayed: no chain without an avatar or for
\* a finished avatar, otherwise pollAvatar() with attempt 0, which sleeps
pollEffect(avatar) ==
    IF avatar = NULL \/ avatar \in Terminal THEN {} ELSE {PollChain(0, FALSE, "sleep")}

\* the effect's cleanup: cancelled = true
cancelAll(chains) == {[c EXCEPT !.cancelled = TRUE] : c \in chains}

\* the page is opened on an avatar in any status; nothing is loaded yet
OpenedPoll(status) ==
    [open |-> TRUE, avatar |-> NULL, server |-> status, chains |-> {}, delays |-> <<>>]

\* loadAvatar: setAvatar(avatarRow); the polling effect runs for it
loadAvatar ==
    /\ poll.open /\ poll.avatar = NULL
    /\ poll' = [poll EXCEPT !.avatar = poll.server, !.chains = pollEffect(poll.server)]
    /\ UNCHANGED <<db, now, sess, directs, uiInvites, receivedInvites, bootstrap,
                   page, view, ctx, images, atx, jvars, tvars>>

\* the generation job moves the avatar on
avatarProgress(status) ==
    /\ poll.open
    /\ \/ poll.server = "pending" /\ status \in {"generating", "failed"}
       \/ poll.server = "generating" /\ status \in Terminal
    /\ poll' = [poll EXCEPT !.server = status]
    /\ UNCHANGED <<db, now, sess, directs, uiInvites, receivedInvites, bootstrap,
                   page, view, ctx, images, atx, jvars, tvars>>

\* the sleep of a chain ends: a cancelled chain returns, another one sends
\* getAvatarById; delays records the sleep that preceded each poll sent
pollSleepEnds(c) ==
    /\ c \in poll.chains /\ c.pc = "sleep"
    /\ IF c.cancelled
       THEN poll' = [poll EXCEPT !.chains = @ \ {c}]
       ELSE /\ Len(poll.delays) < MaxPolls
            /\ poll' = [poll EXCEPT
                          !.chains = (@ \ {c}) \cup {[c EXCEPT !.pc = "fetch"]},
                          !.delays = Append(@, POLL_INTERVALS[c.attempt + 1])]
    /\ UNCHANGED <<db, now, sess, directs, uiInvites, receivedInvites, bootstrap,
                   page, view, ctx, images, atx, jvars, tvars>>

\* the answer to a poll: on an error the chain returns; otherwise
\* setAvatar(latestAvatar) gives the page a new avatar object, so the effect
\* is cleaned up (this chain is cancelled) and runs again, and this chain's
\* pollAvatar(attempt + 1) returns at its first line or after its sleep
pollAnswer(c, ok) ==
    LET latest == poll.server
        next == IF latest \notin Terminal /\ c.attempt + 1 < Len(POLL_INTERVALS)
                THEN {PollChain(c.attempt + 1, TRUE, "sleep")} ELSE {}
    IN  /\ c \in poll.chains /\ c.pc = "fetch"
        /\ poll' = IF ~ok \/ c.cancelled
                   THEN [poll EXCEPT !.chains = @ \ {c}]
                   ELSE [poll EXCEPT !.avatar = latest,
                                     !.chains = cancelAll(@ \ {c}) \cup next \cup pollEffect(latest)]
        /\ UNCHANGED <<db, now, sess, directs, uiInvites, receivedInvites, bootstrap,
                       page, view, ctx, images, atx, jvars, tvars>>

\* the page is left: the cleanup of the effect runs
leavePage ==
    /\ poll.open
    /\ poll' = [poll EXCEPT !.open = FALSE, !.chains = cancelAll(@)]
    /\ UNCHANGED <<db, now, sess, directs, uiInvites, receivedInvites, bootstrap,
                   page, view, ctx, images, atx, jvars, tvars>>

InitPoll ==
    /\ profiles = Users
    /\ workspaces = {[id |-> u, owner_id |-> u] : u \in Users}
    /\ members = {Member(u, u) : u \in Users}
    /\ invites = {}
    /\ now = 0
    /\ sess = [p \in Procs |-> IdleSession]
    /\ directs = 0
    /\ uiInvites = {}
    /\ receivedInvites = {}
    /\ bootstrap = "0010"
    /\ schema = "0002"
    /\ journals = {}
    /\ audio = {}
    /\ outbox = <<>>
    /\ jres = NoResult
    /\ page = NoPage
    /\ view = NoView
    /\ ctx = NoCtx
    /\ images = {}
    /\ atx = <<>>
    /\ templates = {StdSeed}
    /\ vocabulary = {}
    /\ wsname = [w \in Users |-> DefaultName]
    /\ ares = NoAnswer
    /\ \E s \in AvatarStatuses : poll = OpenedPoll(s)

PollChains ==
    {PollChain(a, x, pc) : a \in 0..(Len(POLL_INTERVALS) - 1), x \in BOOLEAN,
                           pc \in {"sleep", "fetch"}}

NextPoll ==
    \/ loadAvatar
    \/ \E s \in AvatarStatuses : avatarProgress(s)
    \/ \E c \in PollChains : pollSleepEnds(c)
    \/ \E c \in PollChains, ok \in BOOLEAN : pollAnswer(c, ok)
    \/ leavePage

SpecPoll == InitPoll /\ [][NextPoll]_vars

\* ---------------------------------------------------------------------------
\* avatar_images and set_primary_avatar_image
\* (0001_initial.sql:404-446, 0005_set_primary_avatar_image.sql:2-33).
\*
\* A call runs in one transaction under READ COMMITTED: an UPDATE locks the
\* rows it changes until the transaction ends, waits for a row another
\* transaction has locked and then works on that row's committed version.
MaxImages == 3

AvatarOwner == "A"
AvatarUsers == {"A", "B"}
AvatarIds == {"a1"}
ImageIds == 1..MaxImages
NotFound == "Avatar image not found"
NotAuthorized == "Not authorized to update this avatar image"
Deadlock == "deadlock detected"

ImageRow(id, avatar, uid, primary) ==
    [id |-> id, avatar_id |-> avatar, user_id |-> uid, is_primary |-> primary]

IdleTx == [pc |-> "idle", uid |-> NULL, target |-> 0, avatar_id |-> NULL,
           user_id |-> NULL, writes |-> {}, res |-> NULL]

\* the rows a transaction has changed and holds locked
Locked(p) == {w.id : w \in atx[p].writes}
LockedByOther(p) == UNION {Locked(q) : q \in Procs \ {p}}

\* policy "Users can insert their avatar images": with check (auth.uid() = user_id)
ImageInsertPolicy(uid, row) == uid = row.user_id

\* a direct insert into avatar_images; avatar_id is checked by the foreign key only
ImageInsert(actor, avatar, primary) ==
    LET free == {n \in ImageIds : \A i \in images : i.id # n}
        row == ImageRow(CHOOSE n \in free : \A m \in free : n <= m, avatar, actor, primary)
    IN  /\ free # {}
        /\ ImageInsertPolicy(actor, row)
        /\ images' = images \cup {row}
        /\ UNCHANGED <<db, now, sess, directs, uiInvites, receivedInvites, bootstrap,
                       page, view, ctx, poll, atx, jvars, tvars>>

\* select * into target_record ...; if not found / if auth.uid() <> user_id
set_primary_avatar_image(p, uid, target_image_id) ==
    LET found == {i \in images : i.id = target_image_id}
        rec == CHOOSE i \in found : TRUE
        call == [IdleTx EXCEPT !.uid = uid, !.target = target_image_id]
    IN  /\ atx[p].pc = "idle"
        /\ atx' = [atx EXCEPT ![p] =
                     IF found = {} THEN [call EXCEPT !.pc = "done", !.res = NotFound]
                     ELSE IF uid = NULL \/ uid # rec.user_id
                     THEN [call EXCEPT !.pc = "done", !.res = NotAuthorized]
                     ELSE [call EXCEPT !.pc = "checked", !.avatar_id = rec.avatar_id,
                                       !.user_id = rec.user_id]]
        /\ UNCHANGED <<db, now, sess, directs, uiInvites, receivedInvites, bootstrap,
                       page, view, ctx, poll, images, jvars, tvars>>

\* (variant: the first update clears no row)
ClearNothing(t) == {}

\* update avatar_images set is_primary = false where avatar_id = ... and
\* user_id = ... and id <> target_image_id: the rows it changes
ClearedRows(t) ==
    {i.id : i \in {x \in images : /\ x.avatar_id = t.avatar_id
                                  /\ x.user_id = t.user_id
                                  /\ x.id # t.target}}

ClearOthers(p) ==
    /\ atx[p].pc = "checked"
    /\ ClearedRows(atx[p]) \cap LockedByOther(p) = {}
    /\ atx' = [atx EXCEPT ![p].pc = "cleared",
                          ![p].writes = {[id |-> n, is_primary |-> FALSE] :
                                            n \in ClearedRows(atx[p])}]
    /\ UNCHANGED <<db, now, sess, directs, uiInvites, receivedInvites, bootstrap,
                   page, view, ctx, poll, images, jvars, tvars>>

\* the rows of the table after the writes ws are committed
Committed(ws) ==
    {IF \E w \in ws : w.id = i.id
     THEN [i EXCEPT !.is_primary = (CHOOSE w \in ws : w.id = i.id).is_primary]
     ELSE i : i \in images}

\* update avatar_images set is_primary = true where id = target_image_id
\* returning *; return: the transaction commits
SetTarget(p) ==
    LET t == atx[p]
        ws == t.writes \cup {[id |-> t.target, is_primary |-> TRUE]}
    IN  /\ t.pc = "cleared"
        /\ t.target \notin LockedByOther(p)
        /\ images' = Committed(ws)
        /\ atx' = [atx EXCEPT ![p].pc = "done", ![p].res = Ok, ![p].writes = {}]
        /\ UNCHANGED <<db, now, sess, directs, uiInvites, receivedInvites, bootstrap,
                       page, view, ctx, poll, jvars, tvars>>

\* what a transaction is waiting to lock
Wanted(p) ==
    IF atx[p].pc = "checked" THEN ClearedRows(atx[p])
    ELSE IF atx[p].pc = "cleared" THEN {atx[p].target} ELSE {}

\* two transactions wait for each other: the deadlock detector aborts one
DeadlockAbort(p) ==
    /\ \E q \in Procs \ {p} : /\ Wanted(p) \cap Locked(q) # {}
                              /\ Wanted(q) \cap Locked(p) # {}
    /\ atx' = [atx EXCEPT ![p].pc = "done", ![p].res = Deadlock, ![p].writes = {}]
    /\ UNCHANGED <<db, now, sess, directs, uiInvites, receivedInvites, bootstrap,
                   page, view, ctx, poll, images, jvars, tvars>>

\* the caller has its result
AvatarAck(p) ==
    /\ atx[p].pc = "done"
    /\ atx' = [atx EXCEPT ![p] = IdleTx]
    /\ UNCHANGED <<db, now, sess, directs, uiInvites, receivedInvites, bootstrap,
                   page, view, ctx, poll, images, jvars, tvars>>

\* one avatar of AvatarOwner with two images, one of them primary or none
InitAvatar ==
    /\ profiles = Users
    /\ workspaces = {[id |-> u, owner_id |-> u] : u \in Users}
    /\ members = {Member(u, u) : u \in Users}
    /\ invites = {}
    /\ now = 0
    /\ sess = [p \in Procs |-> IdleSession]
    /\ directs = 0
    /\ uiInvites = {}
    /\ receivedInvites = {}
    /\ bootstrap = "0010"
    /\ schema = "0002"
    /\ journals = {}
    /\ audio = {}
    /\ outbox = <<>>
    /\ jres = NoResult
    /\ page = NoPage
    /\ view = NoView
    /\ ctx = NoCtx
    /\ poll = NoPoll
    /\ templates = {StdSeed}
    /\ vocabulary = {}
    /\ wsname = [w \in Users |-> DefaultName]
    /\ ares = NoAnswer
    /\ \E b \in BOOLEAN : images = {ImageRow(1, "a1", AvatarOwner, b),
                                    ImageRow(2, "a1", AvatarOwner, FALSE)}
    /\ atx = [p \in Procs |-> IdleTx]

NextAvatar ==
    \/ \E a \in AvatarUsers, v \in AvatarIds, b \in BOOLEAN : ImageInsert(a, v, b)
    \/ \E p \in Procs, u \in AvatarUsers, n \in ImageIds : set_primary_avatar_image(p, u, n)
    \/ \E p \in Procs : ClearOthers(p)
    \/ \E p \in Procs : SetTarget(p)
    \/ \E p \in Procs : DeadlockAbort(p)
    \/ \E p \in Procs : AvatarAck(p)

SpecAvatar == InitAvatar /\ [][NextAvatar]_vars

\* ---------------------------------------------------------------------------
\* Properties
\* ---------------------------------------------------------------------------

\* a call of p reaches its result in this step
Completed(p) == sess[p].pc # "done" /\ sess'[p].pc = "done"

\* p issues a call of op in this step
Called(p, op) == sess[p].pc = "idle" /\ sess'[p].pc # "idle" /\ sess'[p].op = op

SetStatus(S, i, st) == (S \ {i}) \cup {[i EXCEPT !.status = st]}

Expired(i) == ~i.expires_at.isnull /\ i.expires_at.at <= now

\* C1: every workspace always has a membership row whose account is the
\* workspace's owner_id; no operation (accept, revoke, delete or update of
\* membership rows by a core member) removes or replaces it.
OwnerMembershipKept ==
    \A w \in workspaces : Member(w.id, w.owner_id) \in members

AcceptInvalidFails ==
    [][\A p \in Procs :
        (/\ Called(p, "accept_invite")
         /\ ~\E i \in invites : /\ i.token = sess'[p].arg
                                /\ i.status = "pending"
                                /\ ~Expired(i))
        => /\ sess'[p].pc = "done"
           /\ sess'[p].res = InviteInvalid
           /\ UNCHANGED <<invites, members>>]_vars

AcceptExpiredSeen ==
    \E p \in Procs : \E i \in invites :
        /\ sess[p].pc = "done" /\ sess[p].op = "accept_invite"
        /\ sess[p].res = InviteInvalid
        /\ i.token = sess[p].arg /\ i.status = "pending" /\ Expired(i)

\* C4: accept_invite on a pending, unexpired invite goes through: it ends
\* with Ok, the invite accepted by the caller and the caller a member of the
\* invite's workspace; the membership insert is an idempotent upsert, so a
\* caller who is already a member succeeds as well and the membership set is
\* left as it was.
AcceptSucceeds ==
    [][\A p \in Procs :
        /\ (/\ Called(p, "accept_invite")
            /\ \E i \in invites : /\ i.token = sess'[p].arg
                                  /\ i.status = "pending"
                                  /\ ~Expired(i))
           => sess'[p].pc \notin {"done", "idle"}
        /\ (/\ sess[p].op = "accept_invite" /\ InFlight(p) /\ Completed(p))
           => LET r == sess[p].rec
                  m == Member(r.workspace_id, sess[p].uid)
              IN  /\ sess'[p].res = Ok
                  /\ members' = members \cup {m}
                  /\ \E j \in invites' : /\ j.id = r.id
                                         /\ j.status = "accepted"
                                         /\ j.accepted_by = sess[p].uid]_vars

AcceptByMemberSeen ==
    \E p \in Procs : \E i \in invites : \E w \in workspaces :
        /\ sess[p].pc = "done" /\ sess[p].op = "accept_invite"
        /\ sess[p].res = Ok
        /\ i.token = sess[p].arg /\ i.status = "accepted"
        /\ i.accepted_by = sess[p].uid
        /\ w.id = i.workspace_id /\ w.owner_id = sess[p].uid
        /\ Member(w.id, sess[p].uid) \in members

\* C5: the only status changes of an invite are pending -> accepted,
\* pending -> declined, pending -> revoked and accepted -> revoked; a
\* declined or revoked invite never changes status again.
OnlySpecTransitions ==
    [][\A i \in invites : \A j \in invites' :
        (i.id = j.id /\ i.status # j.status) =>
            <<i.status, j.status>> \in {<<"pending", "accepted">>,
                                        <<"pending", "declined">>,
                                        <<"pending", "revoked">>,
                                        <<"accepted", "revoked">>}]_vars

\* C6: revoke_invite by an account that is neither the owner of the invite's
\* workspace nor the account in the invite's accepted_by fails with
\* PermissionDenied and changes nothing, also when accepted_by is unset.
RevokeNeedsPermission ==
    [][\A p \in Procs :
        (/\ Completed(p) /\ sess'[p].op = "revoke_invite"
         /\ \E i \in invites : /\ i.id = sess'[p].arg
                               /\ sess'[p].uid # OwnerOf(i.workspace_id)
                               /\ sess'[p].uid # i.accepted_by)
        => /\ sess'[p].res = PermissionDenied
           /\ UNCHANGED <<invites, members>>]_vars

\* C7: revoke_invite by a permitted account on an accepted invite deletes the
\* membership of accepted_by in the invite's workspace and sets the invite
\* revoked, unless accepted_by is the workspace owner: then it fails with
\* ProtectedOwnerMembership and changes nothing.
RevokeAccepted ==
    [][\A p \in Procs : \A i \in invites :
        (/\ Completed(p) /\ sess'[p].op = "revoke_invite"
         /\ i.id = sess'[p].arg /\ i.status = "accepted"
         /\ sess'[p].uid \in {OwnerOf(i.workspace_id), i.accepted_by})
        => IF i.accepted_by = OwnerOf(i.workspace_id)
           THEN /\ sess'[p].res = ProtectedOwnerMembership
                /\ UNCHANGED <<invites, members>>
           ELSE /\ sess'[p].res = Ok
                /\ members' = members \ {Member(i.workspace_id, i.accepted_by)}
                /\ invites' = SetStatus(invites, i, "revoked")]_vars

RevokeOwnerRefusedSeen ==
    \E p \in Procs : \E i \in invites :
        /\ sess[p].pc = "done" /\ sess[p].op = "revoke_invite"
        /\ sess[p].res = ProtectedOwnerMembership
        /\ i.id = sess[p].arg /\ i.status = "accepted"
        /\ i.accepted_by = OwnerOf(i.workspace_id)
        /\ Member(i.workspace_id, i.accepted_by) \in members

\* C8: revoke_invite by a permitted account on an invite that is already
\* revoked succeeds and changes nothing.
RevokeIdempotent ==
    [][\A p \in Procs :
        (/\ Called(p, "revoke_invite")
         /\ \E i \in invites : /\ i.id = sess'[p].arg
                               /\ i.status = "revoked"
                               /\ sess'[p].uid \in {OwnerOf(i.workspace_id), i.accepted_by})
        => /\ sess'[p].pc = "done"
           /\ sess'[p].res = Ok
           /\ UNCHANGED <<invites, members>>]_vars

RevokeAgainSeen ==
    \E p \in Procs : \E i \in invites :
        /\ sess[p].pc = "done" /\ sess[p].op = "revoke_invite"
        /\ sess[p].res = Ok /\ sess[p].rec.status = "revoked"
        /\ i.id = sess[p].arg /\ i.status = "revoked"

\* C9: decline_invite succeeds only for an invite that is pending and
\* addressed to the caller's email (compared without regard to case); it then
\* sets the invite declined and touches no membership; otherwise it fails and
\* changes nothing.
DeclineContract ==
    [][\A p \in Procs :
        (Completed(p) /\ sess'[p].op = "decline_invite") =>
            IF sess'[p].res = Ok
            THEN \E i \in invites :
                    /\ i.id = sess'[p].arg
                    /\ i.status = "pending"
                    /\ lower(i.email) = lower(JwtEmail(sess'[p].uid))
                    /\ invites' = SetStatus(invites, i, "declined")
                    /\ members' = members
            ELSE /\ sess'[p].res = InviteInvalid
                 /\ UNCHANGED <<invites, members>>]_vars

DeclinedSeen ==
    \E p \in Procs : \E i \in invites :
        /\ sess[p].pc = "done" /\ sess[p].op = "decline_invite"
        /\ sess[p].res = Ok
        /\ i.id = sess[p].arg /\ i.status = "declined"
        /\ Member(i.workspace_id, sess[p].uid) \notin members

AcceptRevokeSerial ==
    \A i \in invites :
        LET m == Member(i.workspace_id, i.accepted_by)
            Other(st) == \E j \in invites : /\ j.id # i.id
                                            /\ j.workspace_id = i.workspace_id
                                            /\ j.accepted_by = i.accepted_by
                                            /\ j.status = st
        IN  /\ (i.status = "revoked" /\ i.accepted_by # NULL /\ m \in members)
                => Other("accepted")
            /\ (i.status = "accepted" /\ m \notin members)
                => Other("revoked")
            /\ i.status = "accepted" <=> (i.accepted_by # NULL /\ i.status # "revoked")

RevokeAfterAcceptSeen ==
    \E p \in Procs : \E i \in invites :
        /\ sess[p].pc = "done" /\ sess[p].op = "revoke_invite"
        /\ sess[p].waited /\ sess[p].res = Ok
        /\ i.id = sess[p].arg /\ i.status = "revoked"
        /\ i.accepted_by \notin {NULL, sess[p].uid}
        /\ Member(i.workspace_id, i.accepted_by) \notin members

\* C12: a read of the invites never reports an invite whose stored status is
\* pending and whose expires_at has passed as pending: the owner's list shows
\* it with status expired, and the invitee's list does not show it as pending.
ExpiredNeverShownPending ==
    [][/\ uiInvites' # uiInvites =>
            \A r \in uiInvites' : \A i \in invites :
                (i.id = r.id /\ i.status = "pending" /\ Expired(i))
                    => r.status = "expired"
       /\ receivedInvites' # receivedInvites =>
            \A r \in receivedInvites' : \A i \in invites :
                (i.id = r.id /\ i.status = "pending" /\ Expired(i))
                    => r.status # "pending"]_vars

\* C13: every account has its profile, the workspace with id = owner_id = the
\* account's id, and its own membership in that workspace, whichever shipped
\* definition of the signup trigger is in force.
BootstrapComplete ==
    \A u \in profiles :
        /\ \E w \in workspaces : w.id = u /\ w.owner_id = u
        /\ Member(u, u) \in members

\* ------------------------------------------------------------------ journals
SpecStatuses == {"processing", "processed", "error"}

\* C14: createJournal by a workspace member with created_by = actor (the audio
\* upload having succeeded) is accepted by the store and leaves a journal row
\* whose status is processing; every stored journal status is one of
\* processing, processed, error.
CreateJournalStored ==
    [][/\ \A a \in Users, w \in Users, s \in Settings, r \in Responses, d \in BOOLEAN :
             (handleSaveRecording(a, w, s, TRUE, r, d) /\ is_workspace_member(a, w))
                => \E j \in journals' : /\ j \notin journals
                                         /\ j.workspace_id = w
                                         /\ j.created_by = a
                                         /\ j.status = "processing"
       /\ \A j \in journals' : j.status \in SpecStatuses]_vars

ResummarizeReenters ==
    [][\A a \in {jres'.actor} \cap Users, id \in JournalIds, s \in Settings,
          r \in Responses :
          (/\ handleResummarize(a, id, s, r)
           /\ journals_update(a, Journal(id))
           /\ Journal(id).status \in {"processed", "error"})
             => /\ outbox'[Len(outbox')].journal_id = id
                /\ \E j \in journals' :
                      /\ j.id = id
                      /\ j.template_id = s.template_id
                      /\ j.language_code = s.language_code
                      /\ j.updated_at = now
                      /\ j.status = "processing"]_vars

\* C17: resummarize on a processed journal leaves the stored transcript and
\* summary as they were; only a completion callback changes the transcript or
\* the summary of a stored journal.
ResummarizeKeepsResult ==
    [][/\ \A a \in {jres'.actor} \cap Users, id \in JournalIds, s \in Settings,
             r \in Responses :
             (handleResummarize(a, id, s, r) /\ Journal(id).status = "processed")
                => \E j \in journals' : /\ j.id = id
                                         /\ j.transcript = Journal(id).transcript
                                         /\ j.summary = Journal(id).summary
       /\ \A j \in journals, k \in journals' :
             (j.id = k.id /\ (j.transcript # k.transcript \/ j.summary # k.summary))
                => jres'.op = "complete"]_vars

\* a processed journal, with its transcript and summary, has just been
\* resummarized with another template by an actor allowed to update it
ResummarizedProcessedSeen ==
    /\ jres.op = "resummarize"
    /\ Len(outbox) > 0 /\ outbox[Len(outbox)].hook = "resummarization"
    /\ \E j \in journals : /\ j.id = jres.journal
                            /\ journals_update(jres.actor, j)
                            /\ j.status = "processed"
                            /\ j.transcript = "t1" /\ j.summary = "s1"
                            /\ j.template_id = outbox[Len(outbox)].template_id
                            /\ outbox[1].hook = "transcription"
                            /\ j.language_code # outbox[1].language_code

\* C18: a completion callback for a journal that is already processed or in
\* error is answered without error and changes nothing; after a completion has
\* been delivered, delivering it again, or delivering any other completion for
\* that journal, leaves the rows as the first delivery left them.
CompletionIdempotent ==
    [][\A id \in JournalIds, x \in Payloads, o \in Outcomes :
          completeProcessing(id, x, o)
             => /\ (Stored(id) /\ Journal(id).status \in Outcomes)
                      => journals' = journals /\ jres'.tone = "ok"
                /\ \A y \in Payloads, q \in Outcomes, t \in 0..MaxTime :
                      ApplyCompletion(journals', id, y, q, t) = journals']_vars

\* a callback has been delivered for a journal that an earlier callback had
\* already completed, and was ignored
DuplicateCompletionSeen ==
    /\ jres.op = "complete" /\ jres.text = "ignored"
    /\ \E j \in journals : /\ j.id = jres.journal
                            /\ j.status \in Outcomes
                            /\ j.transcript # NULL

\* C19: deleteJournal by an actor permitted to delete deletes the row and then
\* requests deletion of the audio object; when the request fails (network
\* error or non-2xx) or the cleanup inside the trigger fails, the failure is
\* only logged: the row is gone and the caller is told "Journal deleted.".
DeleteSurvivesCleanupFailure ==
    [][\A a \in {jres'.actor} \cap Users, id \in JournalIds, c \in BOOLEAN,
          r \in Responses :
          (handleDeleteJournal(a, id, c, r) /\ journals_delete(a, Journal(id)))
             => /\ journals' = journals \ {Journal(id)}
                /\ outbox' = Append(outbox, Request("audio_delete", 0, NoSettings,
                                                    Journal(id).audio_path, r))
                /\ jres'.tone = "info" /\ jres'.text = "Journal deleted."
                /\ jres'.logged = (r # "ok")
                /\ (c => NormalizeKey(Journal(id).audio_path) \notin audio')]_vars

\* the workspace owner has deleted a journal while both the cleanup in the
\* trigger and the cleanup request failed: the row is gone, the object is not
DeleteWithFailedCleanupSeen ==
    /\ jres.op = "delete" /\ jres.tone = "info" /\ jres.logged
    /\ ~Stored(jres.journal)
    /\ Len(outbox) > 0
    /\ outbox[Len(outbox)].hook = "audio_delete"
    /\ outbox[Len(outbox)].response # "ok"
    /\ NormalizeKey(outbox[Len(outbox)].audio_bucket_path) \in audio
    /\ is_core_member(jres.actor, NormalizeKey(outbox[Len(outbox)].audio_bucket_path)[1])

\* C20: when deleteJournal or resummarize is attempted by an actor whom the
\* policy denies, the caller gets a failure and nothing happens: the rows and
\* the audio objects are unchanged and no request is sent, neither to the
\* pipeline nor for the deletion of the audio.
DeniedHasNoEffect ==
    [][\A a \in {jres'.actor} \cap Users, id \in JournalIds, r \in Responses :
          (\/ \E c \in BOOLEAN :
                 handleDeleteJournal(a, id, c, r) /\ ~journals_delete(a, Journal(id))
           \/ \E s \in Settings :
                 handleResummarize(a, id, s, r) /\ ~journals_update(a, Journal(id)))
             => /\ jres'.tone = "error"
                /\ journals' = journals
                /\ audio' = audio
                /\ outbox' = outbox]_vars

\* ------------------------------------------------------------ tenant access
\* C28: for a caller who is neither the owner of the invite's workspace nor
\* the account that accepted it, revoke_invite on an existing invite ends as
\* it does on an id that names no invite: with InviteNotFound and no change.
RevokeHidesExistence ==
    [][\A p \in Procs :
        (Completed(p) /\ sess'[p].op = "revoke_invite")
        => /\ (\A i \in invites : i.id # sess'[p].arg)
                => sess'[p].res = InviteNotFound /\ UNCHANGED <<invites, members>>
           /\ (\E i \in invites : /\ i.id = sess'[p].arg
                                   /\ sess'[p].uid # OwnerOf(i.workspace_id)
                                   /\ sess'[p].uid # i.accepted_by)
                => sess'[p].res = InviteNotFound /\ UNCHANGED <<invites, members>>]_vars

\* C22: journals follow the access table.  A select returns exactly the
\* journals of the workspaces the caller is a member of.  An insert stores its
\* row exactly when the caller is a member of the row's workspace and the row
\* names the caller as created_by.  An update changes a row only for the core
\* member or the creator, and does change it for a member who is one of the
\* two.  A delete removes the row exactly for the core member: not for the
\* creator who is not the core member.
JournalAccessTable ==
    [][\A a \in {ares'.actor} \cap Users :
        /\ JournalSelect(a)
              => ares'.rows = {j \in journals : is_workspace_member(a, j.workspace_id)}
        /\ \A w \in Users, c \in Users :
              JournalInsertAs(a, w, c)
                 => ((journals' # journals) <=> (is_workspace_member(a, w) /\ c = a))
        /\ \A id \in JournalIds, x \in {"s1", "s2"} :
              JournalUpdate(a, id, x)
                 => LET j == Journal(id)
                        owns == is_core_member(a, j.workspace_id) \/ j.created_by = a
                    IN  /\ journals' # journals => owns
                        /\ (is_workspace_member(a, j.workspace_id) /\ owns)
                              => \E k \in journals' : k.id = id /\ k.summary = x
        /\ \A id \in JournalIds :
              JournalDelete(a, id)
                 => ((journals' = journals \ {Journal(id)})
                        <=> is_core_member(a, Journal(id).workspace_id))
                    /\ (journals' # journals => journals' = journals \ {Journal(id)})]_vars

\* member B, who is not the core member, has tried to delete a journal that B
\* created: no row was affected and the journal is still stored
CreatorDeleteDeniedSeen ==
    /\ ares.op = "delete" /\ ares.table = "journals" /\ ares.actor = "B"
    /\ ares.rows = {}
    /\ \E j \in journals : /\ j.id = ares.id
                            /\ j.created_by = "B"
                            /\ is_workspace_member("B", j.workspace_id)
                            /\ ~is_core_member("B", j.workspace_id)

\* C23: a member who is not the core member changes a Custom template only if
\* they created it; the core member's update of a Custom template of their
\* workspace is stored; a delete removes a template only for the core member
\* of its workspace.
TemplateAccessTable ==
    [][\A a \in {ares'.actor} \cap Users :
        /\ \A id \in TemplateIds, k \in Kinds, b \in Bodies :
              (TemplateUpdate(a, id, k, b) /\ Template(id).kind = "Custom")
                 => LET t == Template(id)
                    IN  /\ (/\ is_workspace_member(a, t.workspace_id)
                             /\ ~is_core_member(a, t.workspace_id)
                             /\ templates' # templates) => t.created_by = a
                        /\ is_core_member(a, t.workspace_id)
                              => \E n \in templates' : n.id = id /\ n.kind = k /\ n.body = b
        /\ \A id \in TemplateIds \cup {0} :
              (TemplateDelete(a, id) /\ templates' # templates)
                 => /\ Template(id).workspace_id # NULL
                    /\ is_core_member(a, Template(id).workspace_id)]_vars

\* member B, not the core member, has tried to update a Custom template that
\* someone else created: no row was affected
MemberUpdateDeniedSeen ==
    /\ ares.op = "update" /\ ares.table = "templates" /\ ares.actor = "B"
    /\ ares.rows = {}
    /\ \E t \in templates : /\ t.id = ares.id
                             /\ t.kind = "Custom"
                             /\ t.created_by # "B"
                             /\ t.workspace_id # NULL
                             /\ is_workspace_member("B", t.workspace_id)
                             /\ ~is_core_member("B", t.workspace_id)

\* C24: the set of Std template rows never changes through the calls of
\* signed-in accounts: none is created, no row becomes Std, and no Std row is
\* changed or removed.
StdTemplatesFixed ==
    [][{t \in templates' : t.kind = "Std"} = {t \in templates : t.kind = "Std"}]_vars

\* C25: an update or delete of a vocabulary entry by a member who is not the
\* core member of its workspace changes no row.
VocabularyWritesCoreOnly ==
    [][\A a \in {ares'.actor} \cap Users :
        (/\ ares'.table = "vocabulary_entries"
         /\ ares'.op \in {"update", "delete"}
         /\ vocabulary' # vocabulary)
           => is_core_member(a, VocabularyEntry(ares'.id).workspace_id)]_vars

\* the journals, templates and vocabulary entries of workspace w
TenantRows(w) ==
    <<{j \in journals : j.workspace_id = w},
      {t \in templates : t.workspace_id = w},
      {v \in vocabulary : v.workspace_id = w}>>

\* C21: an account without a membership row in workspace w changes no journal,
\* template, vocabulary entry, invite or membership of w, by direct table
\* writes or by revoke_invite (accepting an invite is the one way in).
TenantIsolation ==
    [][/\ \A a \in {ares'.actor} \cap Users, w \in Users :
             (ares' # ares /\ ~is_workspace_member(a, w))
                => TenantRows(w)' = TenantRows(w)
       /\ \A a \in Users, w \in TenantWorkspaces :
             ~is_workspace_member(a, w)
                => /\ \A e \in InviteEmails :
                         InviteInsert(a, w, e, NextToken, NullTime) => invites' = invites
                   /\ \A u \in Users : MemberInsert(a, w, u) => members' = members
                   /\ \A u \in Users : MemberDelete(a, Member(w, u)) => members' = members
       /\ (RevokeUpdate(1) /\ (invites' # invites \/ members' # members))
             => is_workspace_member(sess[1].uid, sess[1].rec.workspace_id)]_vars

\* C29: every direct call of B on workspace A's journals, templates and
\* vocabulary is decided by B's membership row as it is when the call is made.
\* B starts as a member of A, so whenever B has no membership row the row has
\* been removed by a membership delete or a revoke: B's calls then read no
\* row of A (standard templates aside, which anyone reads) and change none.
\* Whenever B has a membership row, from the start or by an accept, B's
\* selects return A's rows and B's inserts in B's own name are stored.
MembershipReflected ==
    [][\A a \in {ares'.actor} \cap {"B"} :
        ares' # ares
          => IF is_workspace_member(a, "A")
             THEN /\ (ares'.op = "select" /\ ares'.table = "journals")
                        => TenantRows("A")[1] \subseteq ares'.rows
                  /\ (ares'.op = "select" /\ ares'.table = "templates")
                        => TenantRows("A")[2] \subseteq ares'.rows
                  /\ (ares'.op = "select" /\ ares'.table = "vocabulary_entries")
                        => TenantRows("A")[3] \subseteq ares'.rows
                  /\ (/\ ares'.op = "insert"
                       /\ \/ JournalInsertAs(a, "A", a)
                          \/ VocabularyInsert(a, "A", a)
                          \/ \E k \in Kinds : TemplateInsert(a, "A", k, a)) => ares'.ok
             ELSE /\ TenantRows("A")' = TenantRows("A")
                  /\ \A r \in ares'.rows :
                        r.workspace_id = "A" => (ares'.table = "templates" /\ r.kind = "Std")]_vars

\* C26: a save that the settings page reports as successful, with a changed
\* workspace name submitted by the core member, leaves the stored name equal
\* to the submitted one; no other call changes a stored name, and direct
\* calls neither create nor delete a workspace row.
RenameTakesEffect ==
    [][/\ \A a \in {ares'.actor} \cap Users, n \in Names, d \in BOOLEAN :
             (handleSave(a, a, n, d) /\ n # wsname[a] /\ ares'.ok) => wsname'[a] = n
       /\ \A w \in Users : wsname'[w] # wsname[w] => (ares'.op = "handleSave" /\ ares'.actor = w)
       /\ workspaces' = workspaces]_vars

\* C27: a direct select on invites returns, and a direct insert, update or
\* delete changes, only invites of the workspace the caller owns: for any
\* other account the call returns no row and changes none.  The invitee's
\* list carries a token only for an invite that is pending and addressed to
\* the caller's email.
InvitesCoreOnly ==
    [][/\ \A a \in {ares'.actor} \cap Users :
             /\ InviteSelect(a) => \A r \in ares'.rows : OwnerOf(r.workspace_id) = a
             /\ \A id \in InviteIds :
                   (InviteDelete(a, id) \/ \E w \in Users, st \in {"pending", "revoked"} :
                                              InviteUpdate(a, id, w, st))
                      => \A i \in (invites \ invites') \cup (invites' \ invites) :
                            OwnerOf(i.workspace_id) = a
       /\ \A a \in Users, w \in TenantWorkspaces, e \in InviteEmails, x \in ExpiryChoices :
             InviteInsert(a, w, e, NextToken, x) => OwnerOf(w) = a
       /\ \A u \in Users :
             loadReceivedInvites(u)
                => \A r \in receivedInvites' :
                      r.token # NULL
                         => \E i \in invites : /\ i.id = r.id /\ i.token = r.token
                                                /\ i.status = "pending"
                                                /\ lower(i.email) = lower(JwtEmail(u))]_vars

\* B, a member of workspace A but not its core member, has selected from
\* invites while A has an invite: B got no row
MemberSeesNoInviteSeen ==
    /\ ares.op = "select" /\ ares.table = "invites" /\ ares.actor = "B"
    /\ ares.rows = {}
    /\ is_workspace_member("B", "A")
    /\ \E i \in invites : i.workspace_id = "A"

\* ------------------------------------------------------- progress and refresh
\* C30: a step of the journals page (a load, or the refresh timer firing)
\* leaves the journals table, the audio bucket and the webhook requests as
\* they are; and a journal in processing is the same row after every step
\* that is not a completion callback, a resummarize or a delete, whatever the
\* clocks read.
RefreshNeverWrites ==
    [][/\ page' # page => UNCHANGED <<journals, audio, outbox>>
       /\ \A j \in journals :
             j.status = "processing"
                => \/ j \in journals'
                   \/ \E a \in Users, s \in Settings, r \in Responses :
                         handleResummarize(a, j.id, s, r)
                   \/ \E a \in Users, c \in BOOLEAN, r \in Responses :
                         handleDeleteJournal(a, j.id, c, r)
                   \/ \E x \in Payloads, o \in Outcomes : completeProcessing(j.id, x, o)]_vars

\* the page has used up its refresh attempts on a journal that is far past
\* its estimate, and the journal is still stored in processing
RefreshExhaustedSeen ==
    /\ page.attempts = PROCESSING_REFRESH_MAX_ATTEMPTS
    /\ ~page.timeoutId
    /\ page.delay = 0
    /\ \E j \in journals : j.status = "processing" /\ j \in page.journals

\* ------------------------------------------------ invites and memberships
\* C31: every accepted invite has the membership row of the account that
\* accepted it, in the invite's workspace.
AcceptedHasMembership ==
    \A i \in invites :
        i.status = "accepted" => Member(i.workspace_id, i.accepted_by) \in members

\* C32: accept_invite does not look at the caller's email: called by any
\* account with the token of a pending, unexpired invite it is not refused and
\* ends with the caller as member and as accepted_by, also when the invite is
\* addressed to another email. decline_invite and the invitee's list act only
\* for the caller whose email equals the invite's email without regard to
\* case: a decline by anyone else fails and changes nothing, and a pending
\* invite is listed (with its token) only to the addressee.
Addressee(i, uid) == lower(i.email) = lower(coalesce(JwtEmail(uid), ""))

AcceptIgnoresEmail ==
    [][/\ \A p \in Procs :
            /\ (/\ Called(p, "accept_invite")
                /\ \E i \in invites : /\ i.token = sess'[p].arg
                                      /\ i.status = "pending"
                                      /\ ~Expired(i)
                                      /\ ~Addressee(i, sess'[p].uid))
               => sess'[p].pc \notin {"done", "idle"}
            /\ (/\ sess[p].op = "accept_invite" /\ InFlight(p) /\ Completed(p)
                /\ ~Addressee(sess[p].rec, sess[p].uid))
               => /\ sess'[p].res = Ok
                  /\ Member(sess[p].rec.workspace_id, sess[p].uid) \in members'
                  /\ \E j \in invites' : /\ j.id = sess[p].rec.id
                                         /\ j.status = "accepted"
                                         /\ j.accepted_by = sess[p].uid
            /\ (/\ Completed(p) /\ sess'[p].op = "decline_invite"
                /\ \A i \in invites : i.id = sess'[p].arg => ~Addressee(i, sess'[p].uid))
               => /\ sess'[p].res = InviteInvalid
                  /\ UNCHANGED <<invites, members>>
       /\ \A u \in Users :
            loadReceivedInvites(u) =>
                \A r \in receivedInvites' :
                    r.status = "pending" =>
                        \E i \in invites : i.id = r.id /\ Addressee(i, u)]_vars

\* an account the invite was not addressed to has accepted it
AcceptedByOtherEmailSeen ==
    \E p \in Procs : \E i \in invites :
        /\ sess[p].pc = "done" /\ sess[p].op = "accept_invite" /\ sess[p].res = Ok
        /\ i.token = sess[p].arg /\ i.status = "accepted"
        /\ i.accepted_by = sess[p].uid
        /\ ~Addressee(i, sess[p].uid)
        /\ Member(i.workspace_id, sess[p].uid) \in members

LatestRequestWins ==
    [][\A n \in {view'.last.requestId} \cap (1..MaxRequests), q \in ListParams,
          ok \in BOOLEAN :
          journalsResponse([requestId |-> n, params |-> q], ok) =>
              IF n = view.journalsRequestIdRef
              THEN ok => /\ view'.journals = queryResult(q).data
                         /\ view'.totalCount = queryResult(q).count
                         /\ view'.totalPages = totalPagesOf(queryResult(q).count)
              ELSE /\ view'.journals = view.journals
                   /\ view'.totalCount = view.totalCount
                   /\ view'.totalPages = view.totalPages
                   /\ view'.params = view.params
                   /\ view'.failed = view.failed]_vars

\* the answer of an earlier request arrived after the answer of the latest
\* one had been applied, and was dropped
StaleResponseDroppedSeen ==
    /\ view.user # NULL
    /\ view.requests = {}
    /\ view.last.requestId < view.journalsRequestIdRef
    /\ ~view.last.applied
    /\ ~view.failed
    /\ view.journals # <<>>
    /\ view.journals = queryResult(view.params).data

\* C35: once no journal request and no auto-refresh timer is outstanding (and
\* the last answer was not an error), the displayed list and count are the
\* result of the query with the workspace, page, filters and sort order that
\* are selected now.
SettledListIsCurrent ==
    (/\ view.user # NULL
     /\ view.requests = {}
     /\ view.timers = {}
     /\ ~view.failed)
        => /\ view.journals = queryResult(view.params).data
           /\ view.totalCount = queryResult(view.params).count

\* C36: at most one auto-refresh timer is pending at any time; while the set
\* of processing journals displayed for the current workspace is unchanged, at
\* most PROCESSING_REFRESH_MAX_ATTEMPTS refreshes are scheduled, each
\* scheduling counting one; the count starts again only when that set or the
\* workspace changes; and no timer is pending while no displayed journal is
\* processing.
RefreshTimerBounded ==
    [][/\ Cardinality(view'.timers) <= 1
       /\ view'.state.timeoutId # 0 <=> view'.timers # {}
       /\ view'.state.attempts <= PROCESSING_REFRESH_MAX_ATTEMPTS
       /\ viewProcessingKey(view')[2] = {} => view'.timers = {}
       /\ viewProcessingKey(view') = viewProcessingKey(view) =>
              view'.state.attempts \in {view.state.attempts, view.state.attempts + 1}
       /\ view'.timers \ view.timers # {} =>
              /\ view'.state.attempts >= 1
              /\ view'.state.processingKey = viewProcessingKey(view')
              /\ view'.state.processingKey = view.state.processingKey =>
                     view'.state.attempts = view.state.attempts + 1]_vars

\* the refreshes for one set of processing journals are used up: the journal
\* is still shown as processing and nothing further is scheduled
RefreshesUsedUpSeen ==
    /\ view.user # NULL
    /\ view.state.attempts = PROCESSING_REFRESH_MAX_ATTEMPTS
    /\ view.timers = {} /\ view.requests = {}
    /\ viewProcessingKey(view)[2] # {}

\* ------------------------------------------------ workspace context
ReturnedIds(c) == {c.workspaces[n].id : n \in DOMAIN c.workspaces}

\* C37: when resolveWorkspaceContext succeeds, the returned workspaces are the
\* caller's memberships and activeWorkspaceId is one of them: the stored
\* workspace if the caller is a member of it, else the caller's own workspace
\* if a member of it, else the first membership returned.
ActiveIsMembership ==
    [][(ctx' # ctx /\ ctx'.status = "success") =>
          LET c == ctx'
              mine == {w \in Users : Member(w, c.userId) \in members}
          IN  /\ ReturnedIds(c) = mine
              /\ c.activeWorkspaceId \in ReturnedIds(c)
              /\ c.activeWorkspaceId =
                    IF c.storedWorkspaceId \in mine THEN c.storedWorkspaceId
                    ELSE IF c.ownerWorkspaceId \in mine THEN c.ownerWorkspaceId
                    ELSE c.workspaces[1].id]_vars

\* the stored workspace is not among the memberships and the own workspace,
\* which is not the first one returned, was made active
OwnWorkspaceChosenSeen ==
    /\ ctx.status = "success"
    /\ ctx.storedWorkspaceId # NULL
    /\ ctx.storedWorkspaceId \notin ReturnedIds(ctx)
    /\ ctx.ownerWorkspaceId = ctx.userId
    /\ ctx.activeWorkspaceId = ctx.ownerWorkspaceId
    /\ ctx.workspaces[1].id # ctx.ownerWorkspaceId

\* C38: in every outcome of resolveWorkspaceContext that is not an error,
\* shouldPersistSelection is true exactly when storedWorkspaceId differs from
\* the returned activeWorkspaceId; in every error outcome it is false and
\* activeWorkspaceId is null.
PersistIffSelectionChanged ==
    [][ctx' # ctx =>
          IF ctx'.status = "error"
          THEN ~ctx'.shouldPersistSelection /\ ctx'.activeWorkspaceId = NULL
          ELSE ctx'.shouldPersistSelection
                  <=> ctx'.storedWorkspaceId # ctx'.activeWorkspaceId]_vars

\* an account without memberships had a stored workspace: nothing is active
\* and the selection is to be persisted
EmptyWithStoredSeen ==
    /\ ctx.status = "empty"
    /\ ctx.storedWorkspaceId # NULL
    /\ ctx.activeWorkspaceId = NULL
    /\ ctx.shouldPersistSelection

\* ------------------------------------------------ avatar detail page
\* C39: while the avatar is neither ready nor failed the page sends at most
\* as many refresh polls as POLL_INTERVALS has entries, the n-th after a sleep
\* of POLL_INTERVALS[n] (5 s, 10 s, 20 s, 40 s, 80 s).
PollsBackOff ==
    poll.open =>
        /\ Len(poll.delays) <= Len(POLL_INTERVALS)
        /\ \A n \in DOMAIN poll.delays : poll.delays[n] = POLL_INTERVALS[n]

\* ------------------------------------------------ primary avatar image
\* C40: when a call of set_primary_avatar_image succeeds, its target is
\* primary and no other image of the same avatar is, also while another call
\* is in progress; a call by an account that does not own the target ends
\* with an error and changes no image.
PrimaryIsUnique ==
    [][\A p \in Procs :
          (atx[p].pc # "done" /\ atx'[p].pc = "done") =>
              IF atx'[p].res = Ok
              THEN \E t \in images' :
                      /\ t.id = atx[p].target /\ t.is_primary
                      /\ \A i \in images' :
                            (i.avatar_id = t.avatar_id /\ i.id # t.id) => ~i.is_primary
              ELSE /\ images' = images
                   /\ atx'[p].res \in {NotFound, NotAuthorized, Deadlock}
                   /\ (\E i \in images : i.id = atx'[p].target /\ i.user_id # atx'[p].uid)
                         => atx'[p].res = NotAuthorized]_vars

====
